---- MODULE Spec2Model ----
(***************************************************************************)
(* State-machine model of the SteamOS superimage tools:                    *)
(*   repack_steamOS.py / grepack_steamOS.py  (repack: directory -> image)  *)
(*   img2dsk_fedora.py / img2dsk_gui.py      (extract: image -> directory) *)
(*                                                                         *)
(* A process runs one tool.  A command-line process performs exactly one   *)
(* run on its main thread; a GUI process starts a run on a daemon worker   *)
(* thread each time the start button is pressed.  Every run registers its  *)
(* own cleanup closure with atexit.  External commands (losetup, mount,    *)
(* umount, mkfs.ext4, mksquashfs, rsync, file) are modelled by their       *)
(* possible outcomes.                                                      *)
(***************************************************************************)
EXTENDS Integers, Sequences, FiniteSets, TLC

(***************************************************************************)
(* Bounds of the model.                                                    *)
(***************************************************************************)
\* runs a GUI process may start (a command-line process always starts one)
MaxRuns == 2
\* file sizes, artifact sizes and free space are counted in abstract units
MaxSize == 2
MaxFree == 2
\* top-level entries of the partition whose content is enumerated
MaxEntries == 2
\* umount commands that may fail while their target is mounted, per process
MaxUmountFail == 1

Runs == 1..MaxRuns

(***************************************************************************)
(* File names.  A name is a base string plus the number of ".tmp" suffixes *)
(* appended to it: Path.with_suffix(suffix + ".tmp") yields name + ".tmp". *)
(***************************************************************************)
N(b) == [base |-> b, tmp |-> 0]

\* variant: the name itself (a copy written in place)
in_place(n) == n

with_tmp_suffix(n) == [n EXCEPT !.tmp = @ + 1]

\* names whose text contains "squashfs"
SquashfsNamed == {"rootfs.squashfs", "filesystem.squashfs", "arch.squashfs"}

preferred_root_names ==
  << N("rootfs-A.img"), N("rootfs.img"), N("rootfs.squashfs"),
     N("filesystem.squashfs"), N("arch.squashfs") >>

preferred_var_names == << N("var-A.img"), N("var.img") >>

preferred_home_names == << N("home.img") >>

Roles == {"root", "var", "home"}

\* variant: the roles counted from the first partition of the image
PartOfFromFirst(role) == CASE role = "root" -> 1 [] role = "var" -> 2 [] role = "home" -> 3

\* fixed positional partition map: 3 = root, 4 = var, 5 = home
PartOf(role) == CASE role = "root" -> 3 [] role = "var" -> 4 [] role = "home" -> 5

Parts == {3, 4, 5}

CodePreferred(role) ==
  CASE role = "root" -> preferred_root_names
    [] role = "var"  -> preferred_var_names
    [] role = "home" -> preferred_home_names

(***************************************************************************)
(* Directory entries.  A mounted filesystem's top level is a sequence of   *)
(* entries in iterdir() order.  `out` is the set of format words that the  *)
(* output of `file -b` on the entry contains; `gen` tells a file of the    *)
(* original image ("old") from a complete copy of a rebuilt artifact       *)
(* ("new"), a partially written copy ("partial") and a file copied from    *)
(* the source tree ("src").                                                *)
(***************************************************************************)
FormatWords == {"squashfs", "ext2", "ext3", "ext4"}

File(n, sz, out, gen) ==
  [name |-> n, kind |-> "file", size |-> sz, out |-> out, gen |-> gen]

Dir(n, gen) == [name |-> n, kind |-> "dir", size |-> 0, out |-> {}, gen |-> gen]

is_file(e) == e.kind = "file"

NamesOf(dir) == {dir[i].name : i \in 1..Len(dir)}

HasEntry(dir, n) == \E i \in 1..Len(dir) : dir[i].name = n

EntryAt(dir, n) == dir[CHOOSE i \in 1..Len(dir) : dir[i].name = n]

\* cand.exists() and cand.is_file()
ExistsFile(dir, n) == HasEntry(dir, n) /\ is_file(EntryAt(dir, n))

\* [p for p in mnt.iterdir() if p.is_file()]
IterFiles(dir) == SelectSeq(dir, is_file)

Remove(dir, n) == SelectSeq(dir, LAMBDA e : e.name # n)

(***************************************************************************)
(* `file -b path`: the format words of the file's content when the path    *)
(* exists; otherwise file prints "cannot open `path' (No such file or      *)
(* directory)" with exit status 0, so the output contains exactly the      *)
(* format words that the path text contains.                               *)
(***************************************************************************)
FileOutput(e) == e.out

FileOutputMissing(n) == IF n.base \in SquashfsNamed THEN {"squashfs"} ELSE {}

is_squashfs(out) == "squashfs" \in out

is_ext_image(out) == out \cap {"ext2", "ext3", "ext4"} # {}

\* variant of max: the last of several maximal elements
RECURSIVE PyMaxLastFrom(_, _, _)
PyMaxLastFrom(files, i, best) ==
  IF i > Len(files) THEN best
  ELSE PyMaxLastFrom(files, i + 1, IF files[i].size >= best.size THEN files[i] ELSE best)

PyMaxLastBySize(files) == PyMaxLastFrom(files, 2, files[1])

(***************************************************************************)
(* max(files, key=lambda p: p.stat().st_size): Python's max keeps the      *)
(* first of several maximal elements.                                      *)
(***************************************************************************)
RECURSIVE PyMaxFrom(_, _, _)
PyMaxFrom(files, i, best) ==
  IF i > Len(files) THEN best
  ELSE PyMaxFrom(files, i + 1, IF files[i].size > best.size THEN files[i] ELSE best)

PyMaxBySize(files) == PyMaxFrom(files, 2, files[1])

\* for nm in names: cand = mnt / nm; if cand.exists() and cand.is_file(): ... break
NoName == [base |-> "", tmp |-> 0]

RECURSIVE FirstPreferredFrom(_, _, _)
FirstPreferredFrom(dir, names, i) ==
  IF i > Len(names) THEN NoName
  ELSE IF ExistsFile(dir, names[i]) THEN names[i]
  ELSE FirstPreferredFrom(dir, names, i + 1)

FirstPreferred(dir, names) == FirstPreferredFrom(dir, names, 1)

(***************************************************************************)
(* detect_existing_inner, between its mount and its umount: the preferred  *)
(* names in order, then the largest top-level regular file.  A preferred   *)
(* name that exists is returned without probing whether it is an image;    *)
(* the largest file is returned only when it probes as squashfs or ext.    *)
(***************************************************************************)
NoneFound == [path |-> NoName, sq |-> FALSE]

DetectCandidate(dir, names) ==
  LET p == FirstPreferred(dir, names)
      files == IterFiles(dir)
  IN  IF p # NoName THEN p
      ELSE IF files # << >> THEN PyMaxBySize(files).name
      ELSE NoName

detect_existing_inner(dir, names) ==
  LET cand == DetectCandidate(dir, names)
  IN  IF cand = NoName THEN NoneFound
      ELSE IF FirstPreferred(dir, names) # NoName
        THEN [path |-> cand, sq |-> is_squashfs(FileOutput(EntryAt(dir, cand)))]
      ELSE IF is_squashfs(FileOutput(EntryAt(dir, cand)))
                \/ is_ext_image(FileOutput(EntryAt(dir, cand)))
        THEN [path |-> cand, sq |-> is_squashfs(FileOutput(EntryAt(dir, cand)))]
      ELSE NoneFound

\* variant of the target resolution: the largest file before the preferred names
ReplaceTargetLargestFirst(dir, names) ==
  IF IterFiles(dir) # << >> THEN PyMaxLastBySize(IterFiles(dir)).name
  ELSE names[1]

(***************************************************************************)
(* replace_nested_image_in_partition, target resolution (lines 148-162):   *)
(* the preferred names in order, then the largest file, then the first     *)
(* candidate name for an empty partition.                                  *)
(***************************************************************************)
ReplaceTarget(dir, names) ==
  LET p == FirstPreferred(dir, names)
      files == IterFiles(dir)
  IN  IF p # NoName THEN p
      ELSE IF files # << >> THEN PyMaxBySize(files).name
      ELSE names[1]

(***************************************************************************)
(* The source tree handed to repack (--root) and what rsync copies from it *)
(***************************************************************************)
SrcTop(role, has) ==
  CASE role = "root" ->
         << Dir(N("etc"), "src") >>
           \o (IF has.var THEN << Dir(N("var"), "src") >> ELSE << >>)
           \o (IF has.home THEN << Dir(N("home"), "src") >> ELSE << >>)
    [] role = "var"  -> << Dir(N("log"), "src") >>
    [] role = "home" -> << Dir(N("deck"), "src") >>

\* rsync -aAXH src/ mnt/: every source entry replaces the entry of its name
RECURSIVE RsyncInto(_, _)
RsyncInto(dir, src) ==
  IF src = << >> THEN dir
  ELSE LET e == Head(src)
       IN  RsyncInto(IF HasEntry(dir, e.name)
                       THEN [i \in 1..Len(dir) |-> IF dir[i].name = e.name THEN e ELSE dir[i]]
                       ELSE Append(dir, e),
                     Tail(src))

(***************************************************************************)
(* State                                                                   *)
(***************************************************************************)
VARIABLES
  frontend,      \* "cli" | "gui"
  tool,          \* "repack" | "extract"
  isRootUser,    \* os.geteuid() == 0
  inputsExist,   \* old_img.exists() and root_tree.exists() / img.exists()
  opts,          \* [Runs -> [var, home]]: include_var, include_home
  srcHas,        \* [Runs -> [var, home]]: (root_tree / "var").exists(), ... "home"
  preferred,     \* [Roles -> preferred-name list handed to the helpers]
  oldPart,       \* [Parts -> content of the partitions of the original image]
  artSize,       \* size of an image built from the source tree
  freeSpace,     \* f_bavail * f_frsize of a partition when statvfs reads it
  faulty,        \* the external commands and system calls that may fail in this process
  dataBytes,     \* du_bytes(src_dir), in bytes (the other sizes are in abstract units)
  proc,          \* "running" | "atexit" | "exited"
  exitCode,      \* exit status of the process, -1 while none is set
  atexitPending, \* runs whose cleanup is registered and not yet called, in registration order
  started,       \* number of runs started so far
  pc,            \* [Runs -> position of the run]
  role,          \* [Runs -> logical filesystem being processed]
  exc,           \* [Runs -> exception in flight]
  loops,         \* [Runs -> tracked loop devices (list)]
  mounts,        \* [Runs -> tracked mount points (list)]
  found,         \* [Runs -> result of detect_existing_inner for the current role]
  art,           \* [Runs -> artifact under construction / built]
  target,        \* [Runs -> target_path resolved by replace_nested_image_in_partition]
  hfree,         \* [Runs -> free_bytes read by statvfs]
  attached,      \* loop devices attached in the kernel
  mounted,       \* mount points mounted in the kernel
  part,          \* [Parts -> top-level content of the image's partition]
  outImg,        \* the output image file: "absent" | "partial" | "copy"
  steps,         \* history: [Runs -> orchestrator steps executed, in order]
  scan,          \* history: [Runs -> [Roles -> what detect_existing_inner scanned and chose]]
  before,        \* history: [Runs -> content found by the placing helper when it mounted]
  placedBy,      \* history: [Runs -> [Roles -> "none" | "replace" | "wipe"]]
  mountLog,      \* history: <<partition, "ro"|"rw">> for every mount of a partition
  writeLog,      \* history: partitions whose content was changed
  attachCount,   \* history: [device -> successful attaches]
  detachReq,     \* history: [device -> losetup -d commands issued]
  cleanupRuns,   \* history: [Runs -> executions of the run's cleanup]
  umountFails,   \* history: umount commands that failed
  detachFails,   \* history: losetup -d commands that failed
  spaceShort,    \* history: [Runs -> the space check found need > free + old]
  cmdLog,        \* history: teardown commands issued by the finalizers, in order
  detectLog,     \* history: [Runs -> the calls of detect_existing_inner: content scanned, result]
  rmMounted,     \* history: mount points that were still mounted when rmtree ran on their directory
  origTree,      \* round trip: [Roles -> the file tree of the nested image of the original]
  outTree,       \* round trip: the file tree of the extractor's output directory
  rebuilt,       \* round trip: [Roles -> the file tree of the rebuilt nested image]
  tripPc,        \* round trip: the next section to extract or repack
  backing        \* history: [device -> the image file it was last attached to, or "none"]

cfgVars == << frontend, tool, isRootUser, inputsExist, opts, srcHas, preferred, oldPart,
             artSize, freeSpace, faulty, dataBytes >>

procVars == << proc, exitCode, atexitPending, started >>

runVars == << pc, role, exc, loops, mounts, found, art, target, hfree >>

diskVars == << attached, mounted, part, outImg >>

histVars == << steps, scan, before, placedBy, mountLog, writeLog, attachCount,
               detachReq, cleanupRuns, umountFails, detachFails, spaceShort,
               cmdLog, rmMounted >>

tripVars == << origTree, outTree, rebuilt, tripPc >>

callVars == << detectLog >>

loopVars == << backing >>

vars == << cfgVars, procVars, runVars, diskVars, histVars, tripVars, callVars, loopVars >>

\* no round trip in progress
NoTrip ==
  /\ origTree = [x \in {"root", "var", "home"} |-> {}]
  /\ outTree = {}
  /\ rebuilt = [x \in {"root", "var", "home"} |-> {}]
  /\ tripPc = "off"

Devs == Runs

\* losetup --find gives run r the device numbered r
DevOf(r) == r

\* an exception in flight; nsteps (history) is the number of orchestrator
\* steps the run had executed when it was raised
NoExc == [type |-> "none", rc |-> 0, nsteps |-> 0]

CalledProcessError(rc) == [type |-> "CalledProcessError", rc |-> rc, nsteps |-> 0]

PyError(t) == [type |-> t, rc |-> 0, nsteps |-> 0]

NoScan == [done |-> FALSE, dir |-> << >>, cand |-> NoName]

NoArt == [name |-> NoName, fmt |-> "none", size |-> 0, state |-> "none", content |-> "none"]

NoOpts == [var |-> FALSE, home |-> FALSE]

\* the outcomes of an external command or system call: TRUE is success
Commands ==
  {"copy2", "losetup", "mount", "umount", "mksquashfs", "mkfs.ext4", "rsync",
   "unsquashfs", "statvfs", "losetup -d"}

Ok(cmd) == IF cmd \in faulty THEN BOOLEAN ELSE {TRUE}

\* exit status of a failed external command
ExitStatusOf(cmd) ==
  CASE cmd = "mount"  -> 32
    [] cmd = "rsync"  -> 23
    [] OTHER          -> 1

(***************************************************************************)
(* Partition contents the runs start from                                  *)
(***************************************************************************)
LostFound == Dir(N("lost+found"), "old")

RootLayouts ==
  { << LostFound >>,
    << File(N("rootfs-A.img"), 2, {"ext4"}, "old") >>,
    << File(N("rootfs.squashfs"), 2, {"squashfs"}, "old") >>,
    << LostFound, File(N("rootfs.img"), 1, {}, "old") >>,
    << File(N("data.bin"), 1, {"ext4"}, "old"), File(N("big.bin"), 2, {}, "old") >>,
    << File(N("image.bin"), 2, {"squashfs"}, "old") >> }

VarLayouts ==
  { << File(N("var-A.img"), 1, {"ext4"}, "old") >>,
    << LostFound, Dir(N("log"), "old") >> }

HomeLayouts ==
  { << File(N("home.img"), 1, {"ext4"}, "old") >>,
    << LostFound >> }

BoolPairs == [var : BOOLEAN, home : BOOLEAN]

InitRunState ==
  /\ proc = "running"
  /\ exitCode = -1
  /\ atexitPending = << >>
  /\ role = [r \in Runs |-> "root"]
  /\ exc = [r \in Runs |-> NoExc]
  /\ loops = [r \in Runs |-> << >>]
  /\ mounts = [r \in Runs |-> << >>]
  /\ found = [r \in Runs |-> NoneFound]
  /\ art = [r \in Runs |-> NoArt]
  /\ target = [r \in Runs |-> NoName]
  /\ hfree = [r \in Runs |-> 0]
  /\ attached = {}
  /\ mounted = {}
  /\ outImg = "absent"
  /\ steps = [r \in Runs |-> << >>]
  /\ scan = [r \in Runs |-> [x \in Roles |-> NoScan]]
  /\ before = [r \in Runs |-> << >>]
  /\ placedBy = [r \in Runs |-> [x \in Roles |-> "none"]]
  /\ mountLog = {}
  /\ writeLog = {}
  /\ attachCount = [d \in Devs |-> 0]
  /\ backing = [d \in Devs |-> "none"]
  /\ detachReq = [d \in Devs |-> 0]
  /\ cleanupRuns = [r \in Runs |-> 0]
  /\ umountFails = 0
  /\ detachFails = 0
  /\ spaceShort = [r \in Runs |-> FALSE]
  /\ cmdLog = << >>
  /\ rmMounted = {}
  /\ detectLog = [r \in Runs |-> << >>]

\* a command-line process: one run, on the main thread
Init ==
  /\ frontend = "cli"
  /\ tool \in {"repack", "extract"}
  /\ isRootUser \in BOOLEAN
  /\ inputsExist \in BOOLEAN
  /\ \E o \in BoolPairs, h \in BoolPairs :
       /\ opts = [r \in Runs |-> IF r = 1 THEN o ELSE NoOpts]
       /\ srcHas = [r \in Runs |-> IF r = 1 THEN h ELSE NoOpts]
  /\ preferred = [x \in Roles |-> CodePreferred(x)]
  /\ started = 1
  /\ pc = [r \in Runs |-> IF r = 1 THEN "main" ELSE "idle"]
  /\ \E l3 \in RootLayouts, l4 \in VarLayouts, l5 \in HomeLayouts :
       part = [p \in Parts |-> CASE p = 3 -> l3 [] p = 4 -> l4 [] p = 5 -> l5]
  /\ oldPart = part
  /\ artSize = 1
  /\ freeSpace = MaxFree
  /\ faulty = Commands
  /\ dataBytes = 0
  /\ NoTrip
  /\ InitRunState

(***************************************************************************)
(* Helpers shared by the actions                                           *)
(***************************************************************************)
Raise(r, e, at) ==
  /\ exc' = [exc EXCEPT ![r] = [e EXCEPT !.nsteps = Len(steps[r])]]
  /\ pc' = [pc EXCEPT ![r] = at]

\* the same, raised by the step that the action itself starts
RaiseInStep(r, e, at) ==
  /\ exc' = [exc EXCEPT ![r] = [e EXCEPT !.nsteps = Len(steps[r]) + 1]]
  /\ pc' = [pc EXCEPT ![r] = at]

Goto(r, at) == pc' = [pc EXCEPT ![r] = at]

Step(r, kind) == steps' = [steps EXCEPT ![r] = Append(@, << kind, role[r] >>)]

GlobalStep(r, kind) == steps' = [steps EXCEPT ![r] = Append(@, << kind, "-" >>)]

\* variant: nothing is tracked
TrackNothing(q, m) == q

\* loops.append(loopdev), self.mounts.append(m): the tracking lists
Track(q, m) == Append(q, m)

\* a temporary mount point made by mkdtemp inside a helper of run r
Mp(r, helper) == [run |-> r, role |-> role[r], helper |-> helper]

\* mount points that hold a partition of the attached image read-write
RwPartHelpers == {"detmnt", "partmnt"}

\* umount: may fail only on a mounted target
UmountOutcomes(mp) ==
  IF mp \in mounted /\ umountFails < MaxUmountFail THEN Ok("umount") ELSE {TRUE}

(***************************************************************************)
(* finally: umount(mnt); shutil.rmtree(mnt, ignore_errors=True)            *)
(* umount never raises (check=False).  When it fails the filesystem stays  *)
(* mounted read-write on mnt and rmtree descends into it: it deletes every *)
(* entry of the mounted filesystem and fails only on the mount point.      *)
(***************************************************************************)
\* variant: the finally block swallows the exception
AfterFinallySwallow(r, next) == next

\* leaving a try/finally: an exception in flight keeps propagating
AfterFinally(r, next) == IF exc[r] # NoExc THEN "raised" ELSE next

PartFinally(r, mp, next) ==
  \E ok \in UmountOutcomes(mp) :
    LET p == PartOf(role[r])
        stays == mp \in mounted /\ ~ok
    IN  /\ mounted' = IF ok THEN mounted \ {mp} ELSE mounted
        /\ umountFails' = IF stays THEN umountFails + 1 ELSE umountFails
        /\ part' = IF stays THEN [part EXCEPT ![p] = << >>] ELSE part
        /\ writeLog' = IF stays THEN writeLog \cup {p} ELSE writeLog
        /\ rmMounted' = IF stays THEN rmMounted \cup {mp} ELSE rmMounted
        /\ pc' = [pc EXCEPT ![r] = AfterFinally(r, next)]

(***************************************************************************)
(* main() of repack_steamOS.py, run_cli() of grepack_steamOS.py            *)
(***************************************************************************)
\* sys.exit(1) after "Please run as root (sudo)."
ExitNotRoot == 1

\* sys.exit(2) after "Image not found" (img2dsk_fedora.run_cli)
ExitImageNotFound == 2

Main(r) ==
  /\ proc = "running" /\ frontend = "cli" /\ pc[r] = "main"
  /\ IF ~isRootUser
       THEN /\ proc' = "atexit"
            /\ exitCode' = ExitNotRoot
            /\ Goto(r, "ended")
     ELSE IF tool = "extract" /\ ~inputsExist
       THEN \* img2dsk_fedora.run_cli, lines 197-199
            /\ proc' = "atexit"
            /\ exitCode' = ExitImageNotFound
            /\ Goto(r, "ended")
     ELSE /\ Goto(r, "enter")
          /\ UNCHANGED << proc, exitCode >>
  /\ UNCHANGED << cfgVars, loopVars, tripVars, callVars, atexitPending, started, role, exc, loops, mounts, found,
                  art, target, hfree, diskVars, histVars >>

(***************************************************************************)
(* repack(), lines 245-263: input checks, mkdtemp, atexit.register(cleanup)*)
(***************************************************************************)
RepackEnter(r) ==
  /\ proc # "exited" /\ tool = "repack" /\ pc[r] = "enter"
  /\ IF inputsExist
       THEN /\ atexitPending' = Append(atexitPending, r)
            /\ Goto(r, "copy")
            /\ UNCHANGED exc
       ELSE /\ Raise(r, PyError("FileNotFoundError"), "raised")
            /\ UNCHANGED atexitPending
  /\ UNCHANGED << cfgVars, loopVars, tripVars, callVars, proc, exitCode, started, role, loops, mounts, found, art,
                  target, hfree, diskVars, histVars >>

\* shutil.copy2(old_img, out_img)
CopyBase(r) ==
  /\ proc # "exited" /\ pc[r] = "copy"
  /\ \E ok \in Ok("copy2") :
       IF ok
         THEN /\ outImg' = "copy"
              /\ part' = oldPart
              /\ Goto(r, "attach")
              /\ UNCHANGED exc
         ELSE /\ outImg' = "partial"
              /\ Raise(r, PyError("OSError"), "raised")
              /\ UNCHANGED part
  /\ UNCHANGED << cfgVars, loopVars, tripVars, callVars, procVars, role, loops, mounts, found, art, target, hfree,
                  attached, mounted, histVars >>

\* variant: the image handed to losetup is the original
AttachedOriginal == "old"

\* the image handed to losetup by repack: str(out_img)
AttachedImage == "out"

\* losetup --find --show -P out_img; loops.append(loopdev)
\* (the extractor attaches the image it reads: str(image))
Attach(r) ==
  /\ proc # "exited" /\ pc[r] = "attach"
  /\ GlobalStep(r, "Attach")
  /\ \E outcome \in (IF "losetup" \in faulty THEN {"ok", "fail", "empty"} ELSE {"ok"}) :
       CASE outcome = "ok" ->
              /\ attached' = attached \cup {DevOf(r)}
              /\ backing' = [backing EXCEPT ![DevOf(r)] =
                                IF tool = "repack" THEN AttachedImage ELSE "image"]
              /\ attachCount' = [attachCount EXCEPT ![DevOf(r)] = @ + 1]
              /\ loops' = [loops EXCEPT ![r] = Track(@, DevOf(r))]
              /\ Goto(r, IF tool = "repack" THEN "detect.mount" ELSE "part.mount")
              /\ UNCHANGED exc
         [] outcome = "fail" ->
              /\ RaiseInStep(r, CalledProcessError(ExitStatusOf("losetup")), "raised")
              /\ UNCHANGED << attached, attachCount, loops, backing >>
         [] outcome = "empty" ->
              /\ RaiseInStep(r, PyError("RuntimeError"), "raised")
              /\ UNCHANGED << attached, attachCount, loops, backing >>
  /\ UNCHANGED << cfgVars, tripVars, callVars, procVars, role, mounts, found, art, target, hfree,
                  mounted, part, outImg, scan, before, placedBy, mountLog, writeLog,
                  detachReq, cleanupRuns, umountFails, detachFails,
                  spaceShort, cmdLog, rmMounted >>

(***************************************************************************)
(* detect_existing_inner(part_dev, preferred_names)                        *)
(***************************************************************************)
\* mkdtemp(prefix="detmnt_"); mount_rw(part_dev, mnt)
DetectMount(r) ==
  /\ proc # "exited" /\ pc[r] = "detect.mount"
  /\ Step(r, "Resolve")
  /\ \E ok \in Ok("mount") :
       IF ok
         THEN /\ mounted' = mounted \cup {Mp(r, "detmnt")}
              /\ mountLog' = mountLog \cup {<< PartOf(role[r]), "rw" >>}
              /\ Goto(r, "detect.scan")
              /\ UNCHANGED exc
         ELSE /\ RaiseInStep(r, CalledProcessError(ExitStatusOf("mount")), "detect.finally")
              /\ UNCHANGED << mounted, mountLog >>
  /\ UNCHANGED << cfgVars, loopVars, tripVars, callVars, procVars, role, loops, mounts, found, art, target, hfree,
                  attached, part, outImg, scan, before, placedBy, writeLog, attachCount,
                  detachReq, cleanupRuns, umountFails, detachFails,
                  spaceShort, cmdLog, rmMounted >>

\* lines 223-238: the scan of the mounted partition
DetectScan(r) ==
  /\ proc # "exited" /\ pc[r] = "detect.scan"
  /\ found' = [found EXCEPT ![r] = detect_existing_inner(part[PartOf(role[r])], preferred[role[r]])]
  /\ scan' = [scan EXCEPT ![r][role[r]] =
                 [done |-> TRUE, dir |-> part[PartOf(role[r])],
                  cand |-> DetectCandidate(part[PartOf(role[r])], preferred[role[r]])]]
  /\ detectLog' = [detectLog EXCEPT ![r] =
                      Append(@, [part |-> PartOf(role[r]), names |-> preferred[role[r]],
                                 dir |-> part[PartOf(role[r])],
                                 res |-> detect_existing_inner(part[PartOf(role[r])],
                                                               preferred[role[r]])])]
  /\ Goto(r, "detect.finally")
  /\ UNCHANGED << cfgVars, loopVars, tripVars, procVars, role, exc, loops, mounts, art, target, hfree,
                  diskVars, steps, before, placedBy, mountLog, writeLog, attachCount,
                  detachReq, cleanupRuns, umountFails, detachFails,
                  spaceShort, cmdLog, rmMounted >>

DetectFinally(r) ==
  /\ proc # "exited" /\ pc[r] = "detect.finally"
  /\ PartFinally(r, Mp(r, "detmnt"), "build")
  /\ UNCHANGED << cfgVars, loopVars, tripVars, callVars, procVars, role, exc, loops, mounts, found, art, target, hfree,
                  attached, outImg, steps, scan, before, placedBy, mountLog, attachCount,
                  detachReq, cleanupRuns, detachFails, spaceShort, cmdLog >>

(***************************************************************************)
(* repack(), lines 286-299 (root), 318-319 (var), 336-337 (home): which    *)
(* builder runs and under which file name.  exists_path still points into  *)
(* the temporary mount point that detect_existing_inner has unmounted and  *)
(* removed, so the probes of lines 289 and 295 read a missing path.        *)
(***************************************************************************)
\* the name build_ext4_image gets for the root partition when no nested file exists
DefaultRootName == N("rootfs-A.img")

DefaultVarName == N("var-A.img")

DefaultHomeName == N("home.img")

BuildPlan(x, f) ==
  CASE x = "root" ->
         IF f.sq \/ (f.path # NoName /\ is_squashfs(FileOutputMissing(f.path)))
           THEN [fmt |-> "squashfs",
                 name |-> IF f.path # NoName THEN f.path ELSE N("rootfs.squashfs")]
           ELSE [fmt |-> "ext4",
                 name |-> IF f.path # NoName /\ is_ext_image(FileOutputMissing(f.path))
                            THEN f.path ELSE N("rootfs-A.img")]
    [] x = "var" ->
         [fmt |-> "ext4", name |-> IF f.path # NoName THEN f.path ELSE DefaultVarName]
    [] x = "home" ->
         [fmt |-> "ext4", name |-> IF f.path # NoName THEN f.path ELSE DefaultHomeName]

\* the format words `file -b` prints for an image built by the tool
ArtWords(a) == IF a.fmt = "squashfs" THEN {"squashfs"} ELSE {"ext4"}

\* variant: the rename to the final name happens in any case
BuiltStateAlways(e) == "final"

\* tmp.rename(out_file) is the statement after the last build step (lines 98, 134):
\* an exception in flight leaves the file under its temporary name
BuiltState(e) == IF e # NoExc THEN "tmp" ELSE "final"

\* build_squashfs(src_dir, out_file): mksquashfs to out_file.tmp, then rename
BuildSquashfs(r) ==
  /\ proc # "exited" /\ pc[r] = "build"
  /\ BuildPlan(role[r], found[r]).fmt = "squashfs"
  /\ Step(r, "Build")
  /\ \E ok \in Ok("mksquashfs") :
       LET plan == BuildPlan(role[r], found[r])
           sz == artSize
       IN  IF ok
             THEN /\ art' = [art EXCEPT ![r] = [name |-> plan.name, fmt |-> "squashfs",
                                                size |-> sz, state |-> BuiltState(NoExc),
                                                content |-> "full"]]
                  /\ Goto(r, "place")
                  /\ UNCHANGED exc
             ELSE /\ art' = [art EXCEPT ![r] = [name |-> plan.name, fmt |-> "squashfs",
                                                size |-> 0,
                                                state |-> BuiltState(CalledProcessError(ExitStatusOf("mksquashfs"))),
                                                content |-> "partial"]]
                  /\ RaiseInStep(r, CalledProcessError(ExitStatusOf("mksquashfs")), "raised")
  /\ UNCHANGED << cfgVars, loopVars, tripVars, callVars, procVars, role, loops, mounts, found, target, hfree,
                  diskVars, scan, before, placedBy, mountLog, writeLog, attachCount,
                  detachReq, cleanupRuns, umountFails, detachFails,
                  spaceShort, cmdLog, rmMounted >>

\* build_ext4_image, lines 102-125: size, truncate, mkfs.ext4, tune2fs, mkdtemp
BuildExt4Format(r) ==
  /\ proc # "exited" /\ pc[r] = "build"
  /\ BuildPlan(role[r], found[r]).fmt = "ext4"
  /\ Step(r, "Build")
  /\ \E ok \in Ok("mkfs.ext4") :
       LET plan == BuildPlan(role[r], found[r])
           sz == artSize
       IN  /\ art' = [art EXCEPT ![r] = [name |-> plan.name, fmt |-> "ext4", size |-> sz,
                                          state |-> "tmp", content |-> "empty"]]
           /\ IF ok
                THEN Goto(r, "build.mount") /\ UNCHANGED exc
                ELSE RaiseInStep(r, CalledProcessError(ExitStatusOf("mkfs.ext4")), "raised")
  /\ UNCHANGED << cfgVars, loopVars, tripVars, callVars, procVars, role, loops, mounts, found, target, hfree,
                  diskVars, scan, before, placedBy, mountLog, writeLog, attachCount,
                  detachReq, cleanupRuns, umountFails, detachFails,
                  spaceShort, cmdLog, rmMounted >>

\* mount_rw(str(tmp), mnt, loop=True)
BuildMount(r) ==
  /\ proc # "exited" /\ pc[r] = "build.mount"
  /\ \E ok \in Ok("mount") :
       IF ok
         THEN /\ mounted' = mounted \cup {Mp(r, "extimg")}
              /\ Goto(r, "build.rsync")
              /\ UNCHANGED exc
         ELSE /\ Raise(r, CalledProcessError(ExitStatusOf("mount")), "build.finally")
              /\ UNCHANGED mounted
  /\ UNCHANGED << cfgVars, loopVars, tripVars, callVars, procVars, role, loops, mounts, found, art, target, hfree,
                  attached, part, outImg, histVars >>

\* rsync -aAXH --numeric-ids src_dir/ mnt/
BuildRsync(r) ==
  /\ proc # "exited" /\ pc[r] = "build.rsync"
  /\ \E ok \in Ok("rsync") :
       IF ok
         THEN /\ art' = [art EXCEPT ![r].content = "full"]
              /\ Goto(r, "build.finally")
              /\ UNCHANGED exc
         ELSE /\ art' = [art EXCEPT ![r].content = "partial"]
              /\ Raise(r, CalledProcessError(ExitStatusOf("rsync")), "build.finally")
  /\ UNCHANGED << cfgVars, loopVars, tripVars, callVars, procVars, role, loops, mounts, found, target, hfree,
                  diskVars, histVars >>

\* finally: umount(mnt); rmtree(mnt); then tmp.rename(out_file)
BuildFinally(r) ==
  /\ proc # "exited" /\ pc[r] = "build.finally"
  /\ \E ok \in UmountOutcomes(Mp(r, "extimg")) :
       LET mp == Mp(r, "extimg")
           stays == mp \in mounted /\ ~ok
           emptied == IF stays THEN "empty" ELSE art[r].content
       IN  /\ mounted' = IF ok THEN mounted \ {mp} ELSE mounted
           /\ umountFails' = IF stays THEN umountFails + 1 ELSE umountFails
           /\ rmMounted' = IF stays THEN rmMounted \cup {mp} ELSE rmMounted
           /\ Goto(r, AfterFinally(r, "place"))
           /\ art' = [art EXCEPT ![r].content = emptied, ![r].state = BuiltState(exc[r])]
  /\ UNCHANGED << cfgVars, loopVars, tripVars, callVars, procVars, role, exc, loops, mounts, found, target, hfree,
                  attached, part, outImg, steps, scan, before, placedBy, mountLog,
                  writeLog, attachCount, detachReq, cleanupRuns, detachFails, spaceShort, cmdLog >>

(***************************************************************************)
(* replace_nested_image_in_partition(part_dev, name_candidates, new_inner) *)
(***************************************************************************)
\* os.replace(tmp, target): the entry named `from` takes the name `to`
Rename(dir, from, to) ==
  LET d == Remove(dir, to)
  IN  [i \in 1..Len(d) |-> IF d[i].name = from THEN [d[i] EXCEPT !.name = to] ELSE d[i]]

\* mkdtemp(prefix="partmnt_"); mount_rw(part_dev, mnt)
ReplaceMount(r) ==
  /\ proc # "exited" /\ pc[r] = "place"
  /\ found[r].path # NoName
  /\ Step(r, "Replace")
  /\ placedBy' = [placedBy EXCEPT ![r][role[r]] = "replace"]
  /\ \E ok \in Ok("mount") :
       IF ok
         THEN /\ mounted' = mounted \cup {Mp(r, "partmnt")}
              /\ mountLog' = mountLog \cup {<< PartOf(role[r]), "rw" >>}
              /\ before' = [before EXCEPT ![r] = part[PartOf(role[r])]]
              /\ Goto(r, "replace.resolve")
              /\ UNCHANGED exc
         ELSE /\ RaiseInStep(r, CalledProcessError(ExitStatusOf("mount")), "replace.finally")
              /\ UNCHANGED << mounted, mountLog, before >>
  /\ UNCHANGED << cfgVars, loopVars, tripVars, callVars, procVars, role, loops, mounts, found, art, target, hfree,
                  attached, part, outImg, scan, writeLog, attachCount, detachReq,
                  cleanupRuns, umountFails, detachFails,
                  spaceShort, cmdLog, rmMounted >>

(***************************************************************************)
(* lines 148-178: resolve the target, check the free space, unlink a stale *)
(* temporary file.  The RuntimeError of line 170 is raised inside the try  *)
(* block whose `except Exception: pass` (line 171) catches it.             *)
(***************************************************************************)
ReplaceResolve(r) ==
  /\ proc # "exited" /\ pc[r] = "replace.resolve"
  /\ \E statOk \in Ok("statvfs") :
       LET p == PartOf(role[r])
           free == freeSpace
           dir == part[p]
           t == ReplaceTarget(dir, preferred[role[r]])
           tmp == with_tmp_suffix(t)
           old == IF HasEntry(dir, t) THEN EntryAt(dir, t).size ELSE 0
           stale == IF HasEntry(dir, tmp) THEN EntryAt(dir, tmp).size ELSE 0
       IN  /\ target' = [target EXCEPT ![r] = t]
           /\ spaceShort' = [spaceShort EXCEPT ![r] = statOk /\ art[r].size > free + old]
           /\ IF HasEntry(dir, tmp) /\ ~is_file(EntryAt(dir, tmp))
                THEN \* tmp.unlink() on a directory
                     /\ Raise(r, PyError("OSError"), "replace.finally")
                     /\ UNCHANGED << part, writeLog, hfree >>
                ELSE /\ part' = [part EXCEPT ![p] = Remove(dir, tmp)]
                     /\ writeLog' = IF HasEntry(dir, tmp) THEN writeLog \cup {p} ELSE writeLog
                     /\ hfree' = [hfree EXCEPT ![r] = free + stale]
                     /\ Goto(r, "replace.copy")
                     /\ UNCHANGED exc
  /\ UNCHANGED << cfgVars, loopVars, tripVars, callVars, procVars, role, loops, mounts, found, art, attached, mounted,
                  outImg, steps, scan, before, placedBy, mountLog, attachCount,
                  detachReq, cleanupRuns, umountFails, detachFails, cmdLog, rmMounted >>

\* shutil.copy2(new_inner, tmp) opens tmp for writing
ReplaceCopyStart(r) ==
  /\ proc # "exited" /\ pc[r] = "replace.copy"
  /\ LET p == PartOf(role[r])
     IN  /\ part' = [part EXCEPT ![p] =
                       Append(@, File(with_tmp_suffix(target[r]), 0, {}, "partial"))]
         /\ writeLog' = writeLog \cup {p}
  /\ Goto(r, "replace.copying")
  /\ UNCHANGED << cfgVars, loopVars, tripVars, callVars, procVars, role, exc, loops, mounts, found, art, target, hfree,
                  attached, mounted, outImg, steps, scan, before, placedBy, mountLog,
                  attachCount, detachReq, cleanupRuns, umountFails, detachFails,
                  spaceShort, cmdLog, rmMounted >>

\* the copy completes, or fails part-way (it cannot complete without the space)
CopyOutcomes(r) == IF art[r].size <= hfree[r] THEN Ok("copy2") ELSE {FALSE}

CopiedFile(r, n) ==
  File(n, art[r].size, ArtWords(art[r]), IF art[r].content = "full" THEN "new" ELSE "new-empty")

ReplaceCopyEnd(r) ==
  /\ proc # "exited" /\ pc[r] = "replace.copying"
  /\ \E ok \in CopyOutcomes(r) :
       LET p == PartOf(role[r])
           tmp == with_tmp_suffix(target[r])
       IN  IF ok
             THEN /\ part' = [part EXCEPT ![p] =
                                [i \in 1..Len(@) |-> IF @[i].name = tmp
                                                       THEN CopiedFile(r, tmp) ELSE @[i]]]
                  /\ Goto(r, "replace.rename")
                  /\ UNCHANGED exc
             ELSE /\ Raise(r, PyError("OSError"), "replace.finally")
                  /\ UNCHANGED part
  /\ UNCHANGED << cfgVars, loopVars, tripVars, callVars, procVars, role, loops, mounts, found, art, target, hfree,
                  attached, mounted, outImg, histVars >>

\* os.replace(tmp, target_path); sh(["sync"], check=False)
ReplaceRename(r) ==
  /\ proc # "exited" /\ pc[r] = "replace.rename"
  /\ LET p == PartOf(role[r])
         dir == part[p]
         t == target[r]
     IN  IF \/ HasEntry(dir, t) /\ ~is_file(EntryAt(dir, t))
            \/ ~HasEntry(dir, with_tmp_suffix(t))
           THEN \* the target name is a directory, or the temporary file is gone
                /\ Raise(r, PyError("OSError"), "replace.finally")
                /\ UNCHANGED part
           ELSE /\ part' = [part EXCEPT ![p] = Rename(dir, with_tmp_suffix(t), t)]
                /\ Goto(r, "replace.finally")
                /\ UNCHANGED exc
  /\ UNCHANGED << cfgVars, loopVars, tripVars, callVars, procVars, role, loops, mounts, found, art, target, hfree,
                  attached, mounted, outImg, histVars >>

ReplaceFinally(r) ==
  /\ proc # "exited" /\ pc[r] = "replace.finally"
  /\ PartFinally(r, Mp(r, "partmnt"), "next")
  /\ hfree' = [hfree EXCEPT ![r] = 0]
  /\ UNCHANGED << cfgVars, loopVars, tripVars, callVars, procVars, role, exc, loops, mounts, found, art, target,
                  attached, outImg, steps, scan, before, placedBy, mountLog, attachCount,
                  detachReq, cleanupRuns, detachFails, spaceShort, cmdLog >>

(***************************************************************************)
(* wipe_and_fill_partition_direct(part_dev, src_dir)                       *)
(***************************************************************************)
WipeMount(r) ==
  /\ proc # "exited" /\ pc[r] = "place"
  /\ found[r].path = NoName
  /\ Step(r, "Replace")
  /\ placedBy' = [placedBy EXCEPT ![r][role[r]] = "wipe"]
  /\ \E ok \in Ok("mount") :
       IF ok
         THEN /\ mounted' = mounted \cup {Mp(r, "partmnt")}
              /\ mountLog' = mountLog \cup {<< PartOf(role[r]), "rw" >>}
              /\ before' = [before EXCEPT ![r] = part[PartOf(role[r])]]
              /\ Goto(r, "wipe.fill")
              /\ UNCHANGED exc
         ELSE /\ RaiseInStep(r, CalledProcessError(ExitStatusOf("mount")), "wipe.finally")
              /\ UNCHANGED << mounted, mountLog, before >>
  /\ UNCHANGED << cfgVars, loopVars, tripVars, callVars, procVars, role, loops, mounts, found, art, target, hfree,
                  attached, part, outImg, scan, writeLog, attachCount, detachReq,
                  cleanupRuns, umountFails, detachFails,
                  spaceShort, cmdLog, rmMounted >>

\* lines 196-206: delete every child but lost+found, rsync the tree in, sync
WipeFill(r) ==
  /\ proc # "exited" /\ pc[r] = "wipe.fill"
  /\ LET p == PartOf(role[r])
         kept == SelectSeq(part[p], LAMBDA e : e.name = N("lost+found"))
         src == SrcTop(role[r], srcHas[r])
     IN  /\ writeLog' = writeLog \cup {p}
         /\ \E copied \in (IF "rsync" \in faulty THEN 0..Len(src) ELSE {Len(src)}) :
              /\ part' = [part EXCEPT ![p] = RsyncInto(kept, SubSeq(src, 1, copied))]
              /\ IF copied = Len(src)
                   THEN Goto(r, "wipe.finally") /\ UNCHANGED exc
                   ELSE Raise(r, CalledProcessError(ExitStatusOf("rsync")), "wipe.finally")
  /\ UNCHANGED << cfgVars, loopVars, tripVars, callVars, procVars, role, loops, mounts, found, art, target, hfree,
                  attached, mounted, outImg, steps, scan, before, placedBy, mountLog,
                  attachCount, detachReq, cleanupRuns, umountFails, detachFails,
                  spaceShort, cmdLog, rmMounted >>

WipeFinally(r) ==
  /\ proc # "exited" /\ pc[r] = "wipe.finally"
  /\ PartFinally(r, Mp(r, "partmnt"), "next")
  /\ UNCHANGED << cfgVars, loopVars, tripVars, callVars, procVars, role, exc, loops, mounts, found, art, target, hfree,
                  attached, outImg, steps, scan, before, placedBy, mountLog, attachCount,
                  detachReq, cleanupRuns, detachFails, spaceShort, cmdLog >>

(***************************************************************************)
(* repack(), lines 309-347: the var and home sections, the final sync      *)
(***************************************************************************)
\* variant: the options are ignored
WantedBySource(r, x) == srcHas[r][x]

\* variant: the source tree is not looked at
WantedByOption(r, x) == opts[r][x]

\* include_var and var_src.exists() (lines 310-313), the same for home (328-331)
Wanted(r, x) ==
  CASE x = "var"  -> opts[r].var /\ srcHas[r].var
    [] x = "home" -> opts[r].home /\ srcHas[r].home

\* variant: the home section before the var section
NextSectionHomeFirst(r) ==
  IF role[r] = "root" /\ Wanted(r, "home") THEN "home"
  ELSE IF role[r] \in {"root", "home"} /\ Wanted(r, "var") THEN "var"
  ELSE "none"

\* the section that follows the current one: var (lines 309-325), home (327-343)
NextSection(r) ==
  IF role[r] = "root" /\ Wanted(r, "var") THEN "var"
  ELSE IF role[r] \in {"root", "var"} /\ Wanted(r, "home") THEN "home"
  ELSE "none"

NextRole(r) ==
  /\ proc # "exited" /\ pc[r] = "next"
  /\ IF NextSection(r) = "none"
       THEN UNCHANGED role /\ Goto(r, "sync")
       ELSE role' = [role EXCEPT ![r] = NextSection(r)] /\ Goto(r, "detect.mount")
  /\ found' = [found EXCEPT ![r] = NoneFound]
  /\ art' = [art EXCEPT ![r] = NoArt]
  /\ target' = [target EXCEPT ![r] = NoName]
  /\ before' = [before EXCEPT ![r] = << >>]
  /\ spaceShort' = [spaceShort EXCEPT ![r] = FALSE]
  /\ UNCHANGED << cfgVars, loopVars, tripVars, callVars, procVars, exc, loops, mounts, hfree, diskVars, steps, scan,
                  placedBy, mountLog, writeLog, attachCount, detachReq, cleanupRuns,
                  umountFails, detachFails, cmdLog, rmMounted >>

\* sh(["sync"], check=False); repack returns
Sync(r) ==
  /\ proc # "exited" /\ pc[r] = "sync"
  /\ GlobalStep(r, "Sync")
  /\ Goto(r, "returned")
  /\ UNCHANGED << cfgVars, loopVars, tripVars, callVars, procVars, role, exc, loops, mounts, found, art, target, hfree,
                  diskVars, scan, before, placedBy, mountLog, writeLog, attachCount,
                  detachReq, cleanupRuns, umountFails, detachFails,
                  spaceShort, cmdLog, rmMounted >>

(***************************************************************************)
(* img2dsk_fedora.py: SuperimageExtractor                                  *)
(***************************************************************************)
\* __init__, lines 81-87: mkdtemp, atexit.register(self.cleanup)
ExtractEnter(r) ==
  /\ proc # "exited" /\ tool = "extract" /\ pc[r] = "enter"
  /\ atexitPending' = Append(atexitPending, r)
  /\ Goto(r, "attach")
  /\ UNCHANGED << cfgVars, loopVars, tripVars, callVars, proc, exitCode, started, role, exc, loops, mounts, found, art,
                  target, hfree, diskVars, histVars >>

\* mount_ro(dev, part_mnt); self.mounts.append(part_mnt)   (lines 146-147, 110-111)
ExtractMountPart(r) ==
  /\ proc # "exited" /\ pc[r] = "part.mount"
  /\ Step(r, "Resolve")
  /\ \E ok \in Ok("mount") :
       IF ok
         THEN /\ mounted' = mounted \cup {Mp(r, "part")}
              /\ mounts' = [mounts EXCEPT ![r] = Track(@, Mp(r, "part"))]
              /\ mountLog' = mountLog \cup {<< PartOf(role[r]), "ro" >>}
              /\ Goto(r, "part.scan")
              /\ UNCHANGED exc
         ELSE /\ RaiseInStep(r, CalledProcessError(ExitStatusOf("mount")), "raised")
              /\ UNCHANGED << mounted, mounts, mountLog >>
  /\ UNCHANGED << cfgVars, loopVars, tripVars, callVars, procVars, role, loops, found, art, target, hfree,
                  attached, part, outImg, scan, before, placedBy, writeLog, attachCount,
                  detachReq, cleanupRuns, umountFails, detachFails, spaceShort, cmdLog, rmMounted >>

\* lines 149-158 (root): preferred names, then the largest file;
\* lines 113-114 (var, home): the largest file (sorted is stable)
ExtractInner(x, dir, names) ==
  IF x = "root" THEN DetectCandidate(dir, names)
  ELSE IF IterFiles(dir) # << >> THEN PyMaxBySize(IterFiles(dir)).name
  ELSE NoName

\* lines 160-171 (root), 116-125 (var, home): how the content is read
ExtractHow(x, dir, names) ==
  LET inner == ExtractInner(x, dir, names)
      out == IF inner = NoName THEN {} ELSE FileOutput(EntryAt(dir, inner))
  IN  IF x = "root" /\ is_squashfs(out) THEN "unsquashfs"
      ELSE IF is_ext_image(out) THEN "inner"
      ELSE "direct"

ExtractScan(r) ==
  /\ proc # "exited" /\ pc[r] = "part.scan"
  /\ LET dir == part[PartOf(role[r])]
         inner == ExtractInner(role[r], dir, preferred[role[r]])
         how == ExtractHow(role[r], dir, preferred[role[r]])
     IN  /\ found' = [found EXCEPT ![r] =
                        [path |-> IF how = "direct" THEN NoName ELSE inner,
                         sq |-> how = "unsquashfs"]]
         /\ placedBy' = [placedBy EXCEPT ![r][role[r]] = how]
         /\ Goto(r, CASE how = "unsquashfs" -> "unsquashfs"
                      [] how = "inner" -> "inner.mount"
                      [] how = "direct" -> "rsync")
  /\ UNCHANGED << cfgVars, loopVars, tripVars, callVars, procVars, role, exc, loops, mounts, art, target, hfree,
                  diskVars, steps, scan, before, mountLog, writeLog, attachCount,
                  detachReq, cleanupRuns, umountFails, detachFails, spaceShort, cmdLog, rmMounted >>

\* unsquashfs -f -d outdir inner_root
ExtractUnsquashfs(r) ==
  /\ proc # "exited" /\ pc[r] = "unsquashfs"
  /\ Step(r, "Extract")
  /\ \E ok \in Ok("unsquashfs") :
       IF ok THEN Goto(r, "section.end") /\ UNCHANGED exc
       ELSE RaiseInStep(r, CalledProcessError(ExitStatusOf("unsquashfs")), "raised")
  /\ UNCHANGED << cfgVars, loopVars, tripVars, callVars, procVars, role, loops, mounts, found, art, target, hfree,
                  diskVars, scan, before, placedBy, mountLog, writeLog, attachCount,
                  detachReq, cleanupRuns, umountFails, detachFails, spaceShort, cmdLog, rmMounted >>

\* mount_ro(str(inner), inner_mnt, loop=True); self.mounts.append(inner_mnt)
ExtractInnerMount(r) ==
  /\ proc # "exited" /\ pc[r] = "inner.mount"
  /\ \E ok \in Ok("mount") :
       IF ok
         THEN /\ mounted' = mounted \cup {Mp(r, "inner")}
              /\ mounts' = [mounts EXCEPT ![r] = Track(@, Mp(r, "inner"))]
              /\ Goto(r, "rsync")
              /\ UNCHANGED exc
         ELSE /\ Raise(r, CalledProcessError(ExitStatusOf("mount")), "raised")
              /\ UNCHANGED << mounted, mounts >>
  /\ UNCHANGED << cfgVars, loopVars, tripVars, callVars, procVars, role, loops, found, art, target, hfree,
                  attached, part, outImg, histVars >>

\* rsync -aAXH --numeric-ids mnt/ outdir/
ExtractRsync(r) ==
  /\ proc # "exited" /\ pc[r] = "rsync"
  /\ Step(r, "Extract")
  /\ \E ok \in Ok("rsync") :
       IF ok THEN Goto(r, "section.end") /\ UNCHANGED exc
       ELSE RaiseInStep(r, CalledProcessError(ExitStatusOf("rsync")), "raised")
  /\ UNCHANGED << cfgVars, loopVars, tripVars, callVars, procVars, role, loops, mounts, found, art, target, hfree,
                  diskVars, scan, before, placedBy, mountLog, writeLog, attachCount,
                  detachReq, cleanupRuns, umountFails, detachFails, spaceShort, cmdLog, rmMounted >>

\* extract_all, lines 173-187: the var and home sections; extract_all returns
ExtractNext(r) ==
  /\ proc # "exited" /\ pc[r] = "section.end"
  /\ IF role[r] = "root" /\ opts[r].var
       THEN role' = [role EXCEPT ![r] = "var"] /\ Goto(r, "part.mount")
     ELSE IF role[r] \in {"root", "var"} /\ opts[r].home
       THEN role' = [role EXCEPT ![r] = "home"] /\ Goto(r, "part.mount")
     ELSE UNCHANGED role /\ Goto(r, "returned")
  /\ found' = [found EXCEPT ![r] = NoneFound]
  /\ UNCHANGED << cfgVars, loopVars, tripVars, callVars, procVars, exc, loops, mounts, art, target, hfree, diskVars,
                  histVars >>

(***************************************************************************)
(* main(), lines 367-374: repack returned, or the exception is caught and  *)
(* the process leaves through sys.exit; the interpreter then calls the     *)
(* atexit callbacks.                                                       *)
(***************************************************************************)
ExitStatus(r) ==
  IF pc[r] = "returned" THEN 0
  ELSE IF exc[r].type = "CalledProcessError" THEN exc[r].rc
  ELSE 1

CliExit(r) ==
  /\ proc = "running" /\ frontend = "cli"
  /\ pc[r] \in {"returned", "raised"}
  /\ proc' = "atexit"
  /\ exitCode' = ExitStatus(r)
  /\ Goto(r, "ended")
  /\ UNCHANGED << cfgVars, loopVars, tripVars, callVars, atexitPending, started, role, exc, loops, mounts, found,
                  art, target, hfree, diskVars, histVars >>

(***************************************************************************)
(* cleanup(): umount the tracked mount points in reverse order, detach the *)
(* tracked loop devices in reverse order, remove the working directory.    *)
(***************************************************************************)
RECURSIVE Reverse(_)
Reverse(q) == IF q = << >> THEN << >> ELSE Append(Reverse(Tail(q)), Head(q))

Range(q) == {q[i] : i \in 1..Len(q)}

\* a partition mount is busy while the image file inside it is loop-mounted
Busy(m, cur) ==
  /\ m.helper = "part"
  /\ \E i \in cur : i.helper = "inner" /\ i.run = m.run /\ i.role = m.role

\* the umount commands issued in `order`; those in `failing` fail
RECURSIVE UmountEach(_, _, _)
UmountEach(order, cur, failing) ==
  IF order = << >> THEN cur
  ELSE LET m == Head(order)
           ok == m \notin failing /\ ~Busy(m, cur)
       IN  UmountEach(Tail(order), IF ok THEN cur \ {m} ELSE cur, failing)

\* variant: the order of registration
CleanupOrderForward(q) == q

\* reversed(self.mounts), reversed(self.loops)
CleanupOrder(q) == Reverse(q)

\* mounts that still hold a partition of run r's loop device
HoldsDevice(r, cur) ==
  \E m \in cur : m.run = r /\ m.helper \in {"detmnt", "partmnt", "part"}

TeardownCommands(r) ==
  [i \in 1..Len(mounts[r]) |-> << "umount", CleanupOrder(mounts[r])[i] >>]
    \o [i \in 1..Len(loops[r]) |-> << "losetup -d", CleanupOrder(loops[r])[i] >>]
    \o << << "rmtree", r >> >>

Cleanup(r) ==
  \E failing \in SUBSET (Range(mounts[r]) \cap mounted), detachOk \in Ok("losetup -d") :
    /\ Cardinality(failing) <= MaxUmountFail - umountFails
    /\ failing # {} => "umount" \in faulty
    /\ LET cur == UmountEach(CleanupOrder(mounts[r]), mounted, failing)
           devs == Range(loops[r])
       IN  /\ mounted' = cur
           \* a tracked mount point that is still mounted had its umount fail
           /\ umountFails' = umountFails + Cardinality(Range(mounts[r]) \cap cur)
           /\ detachFails' = IF detachOk THEN detachFails
                             ELSE detachFails + Cardinality(devs)
           /\ detachReq' = [d \in Devs |-> IF d \in devs THEN detachReq[d] + 1 ELSE detachReq[d]]
           \* losetup -d on a device that is still in use only marks it for
           \* detaching when its last user goes away
           /\ attached' = IF detachOk /\ ~HoldsDevice(r, cur) THEN attached \ devs ELSE attached
    /\ cleanupRuns' = [cleanupRuns EXCEPT ![r] = @ + 1]
    /\ cmdLog' = cmdLog \o TeardownCommands(r)
    \* the tracked mount points are directories of the working directory
    /\ rmMounted' = rmMounted \cup (Range(mounts[r]) \cap UmountEach(CleanupOrder(mounts[r]), mounted, failing))

\* the interpreter calls the registered callbacks, last registered first
AtexitCleanup ==
  /\ proc = "atexit"
  /\ atexitPending # << >>
  /\ Cleanup(atexitPending[Len(atexitPending)])
  /\ atexitPending' = SubSeq(atexitPending, 1, Len(atexitPending) - 1)
  /\ UNCHANGED << cfgVars, loopVars, tripVars, callVars, proc, exitCode, started, runVars, part, outImg, steps, scan,
                  before, placedBy, mountLog, writeLog, attachCount, spaceShort >>

ProcExit ==
  /\ proc = "atexit"
  /\ atexitPending = << >>
  /\ proc' = "exited"
  /\ UNCHANGED << cfgVars, loopVars, tripVars, callVars, exitCode, atexitPending, started, runVars, diskVars, histVars >>

RepackStep(r) ==
  \/ RepackEnter(r)
  \/ CopyBase(r)
  \/ Attach(r)
  \/ DetectMount(r)
  \/ DetectScan(r)
  \/ DetectFinally(r)
  \/ BuildSquashfs(r)
  \/ BuildExt4Format(r)
  \/ BuildMount(r)
  \/ BuildRsync(r)
  \/ BuildFinally(r)
  \/ ReplaceMount(r)
  \/ ReplaceResolve(r)
  \/ ReplaceCopyStart(r)
  \/ ReplaceCopyEnd(r)
  \/ ReplaceRename(r)
  \/ ReplaceFinally(r)
  \/ WipeMount(r)
  \/ WipeFill(r)
  \/ WipeFinally(r)
  \/ NextRole(r)
  \/ Sync(r)

ExtractWork(r) ==
  \/ ExtractMountPart(r)
  \/ ExtractScan(r)
  \/ ExtractUnsquashfs(r)
  \/ ExtractInnerMount(r)
  \/ ExtractRsync(r)
  \/ ExtractNext(r)

ExtractStep(r) ==
  \/ ExtractEnter(r)
  \/ ExtractWork(r)

\* a command-line process running the repack tool
NextRepack ==
  \/ \E r \in Runs : Main(r)
  \/ \E r \in Runs : RepackStep(r)
  \/ \E r \in Runs : CliExit(r)
  \/ AtexitCleanup
  \/ ProcExit

\* a command-line process running either tool
Next ==
  \/ NextRepack
  \/ \E r \in Runs : ExtractStep(r)

Spec == Init /\ [][Next]_vars

(***************************************************************************)
(* The GUI front ends (grepack_steamOS.py lines 438-474, img2dsk_fedora.py *)
(* lines 285-309).  App.start validates the paths and starts a daemon      *)
(* thread; it does not look at a worker that is still running.  The        *)
(* extractor is constructed, and its cleanup registered, by App.start      *)
(* itself; repack registers its cleanup on the worker thread.              *)
(***************************************************************************)
GuiStart ==
  /\ proc = "running" /\ frontend = "gui"
  /\ started < MaxRuns
  /\ inputsExist
  /\ started' = started + 1
  /\ IF tool = "extract"
       THEN /\ atexitPending' = Append(atexitPending, started + 1)
            /\ pc' = [pc EXCEPT ![started + 1] = "attach"]
       ELSE /\ pc' = [pc EXCEPT ![started + 1] = "enter"]
            /\ UNCHANGED atexitPending
  /\ UNCHANGED << cfgVars, loopVars, tripVars, callVars, proc, exitCode, role, exc, loops, mounts, found, art, target,
                  hfree, diskVars, histVars >>

\* task() / _do_extract(): the run returned, or its exception is caught and shown
WorkerEnd(r) ==
  /\ proc # "exited" /\ frontend = "gui"
  /\ pc[r] \in {"returned", "raised"}
  /\ Goto(r, "ended")
  /\ UNCHANGED << cfgVars, loopVars, tripVars, callVars, procVars, role, exc, loops, mounts, found, art, target, hfree,
                  diskVars, histVars >>

\* the Quit button or closing the window: mainloop returns and the interpreter
\* shuts down; daemon threads keep running while the atexit callbacks run
GuiQuit ==
  /\ proc = "running" /\ frontend = "gui"
  /\ proc' = "atexit"
  /\ exitCode' = 0
  /\ UNCHANGED << cfgVars, loopVars, tripVars, callVars, atexitPending, started, runVars, diskVars, histVars >>

NextGui ==
  \/ GuiStart
  \/ \E r \in Runs : RepackStep(r)
  \/ \E r \in Runs : ExtractWork(r)
  \/ \E r \in Runs : WorkerEnd(r)
  \/ GuiQuit
  \/ AtexitCleanup
  \/ ProcExit

GuiRootLayouts ==
  { << LostFound >>, << File(N("rootfs.squashfs"), 2, {"squashfs"}, "old") >> }

InitGui ==
  /\ frontend = "gui"
  /\ tool \in {"repack", "extract"}
  /\ isRootUser = TRUE
  /\ inputsExist = TRUE
  /\ opts = [r \in Runs |-> IF tool = "extract" THEN [var |-> TRUE, home |-> TRUE]
                            ELSE NoOpts]
  /\ srcHas = [r \in Runs |-> NoOpts]
  /\ preferred = [x \in Roles |-> CodePreferred(x)]
  /\ started = 0
  /\ pc = [r \in Runs |-> "idle"]
  /\ \E l3 \in GuiRootLayouts :
       part = [p \in Parts |-> CASE p = 3 -> l3
                                 [] p = 4 -> << File(N("var-A.img"), 1, {"ext4"}, "old") >>
                                 [] p = 5 -> << LostFound >>]
  /\ oldPart = part
  /\ artSize = 1
  /\ freeSpace = MaxFree
  /\ faulty \in {{}, {"losetup"}}
  /\ dataBytes = 0
  /\ NoTrip
  /\ InitRunState

SpecGui == InitGui /\ [][NextGui]_vars

(***************************************************************************)
(* SpecPart: the same program on a root partition whose content ranges     *)
(* over every directory of at most MaxEntries entries, and with the        *)
(* preferred-name list handed to the helpers ranging over PrefLists.       *)
(***************************************************************************)
NameA == N("rootfs-A.img")

NameB == N("rootfs.squashfs")

NameO == N("data.bin")

PartNames == {NameA, NameB, NameO, with_tmp_suffix(NameA)}

ProbeOutputs == {{}, {"squashfs"}, {"ext4"}}

OldEntries ==
  {Dir(n, "old") : n \in PartNames}
    \cup {File(n, sz, out, "old") : n \in PartNames, sz \in 1..MaxSize, out \in ProbeOutputs}

Layouts(k) ==
  {q \in [1..k -> OldEntries] : \A i, j \in 1..k : i # j => q[i].name # q[j].name}

PartLayouts == UNION {Layouts(k) : k \in 0..MaxEntries}

PrefLists == {<< NameA, NameB >>, << NameB, NameA >>}

InitPart ==
  /\ frontend = "cli"
  /\ tool = "repack"
  /\ isRootUser = TRUE
  /\ inputsExist = TRUE
  /\ opts = [r \in Runs |-> NoOpts]
  /\ srcHas = [r \in Runs |-> NoOpts]
  /\ \E names \in PrefLists :
       preferred = [x \in Roles |-> IF x = "root" THEN names ELSE CodePreferred(x)]
  /\ started = 1
  /\ pc = [r \in Runs |-> IF r = 1 THEN "main" ELSE "idle"]
  /\ \E l3 \in PartLayouts :
       part = [p \in Parts |-> IF p = 3 THEN l3 ELSE << LostFound >>]
  /\ oldPart = part
  /\ artSize = 1
  /\ freeSpace = MaxFree
  /\ faulty = {"copy2"}
  /\ dataBytes = 0
  /\ NoTrip
  /\ InitRunState

SpecPart == InitPart /\ [][NextRepack]_vars

(***************************************************************************)
(* SpecSpace: the same program with the size of the built image and the    *)
(* free space of the partition ranging over 1..MaxSize and 0..MaxFree.     *)
(***************************************************************************)
SpaceLayouts ==
  { << File(NameA, sz, {"ext4"}, "old") >> : sz \in 1..MaxSize }
    \cup { << File(NameA, sz, {"ext4"}, "old"),
              File(with_tmp_suffix(NameA), 1, {}, "old") >> : sz \in 1..MaxSize }
    \cup { << File(NameB, 1, {"squashfs"}, "old") >>, << LostFound >> }

InitSpace ==
  /\ frontend = "cli"
  /\ tool = "repack"
  /\ isRootUser = TRUE
  /\ inputsExist = TRUE
  /\ opts = [r \in Runs |-> NoOpts]
  /\ srcHas = [r \in Runs |-> NoOpts]
  /\ preferred = [x \in Roles |-> CodePreferred(x)]
  /\ started = 1
  /\ pc = [r \in Runs |-> IF r = 1 THEN "main" ELSE "idle"]
  /\ \E l3 \in SpaceLayouts :
       part = [p \in Parts |-> IF p = 3 THEN l3 ELSE << LostFound >>]
  /\ oldPart = part
  /\ artSize \in 1..MaxSize
  /\ freeSpace \in 0..MaxFree
  /\ faulty = Commands
  /\ dataBytes = 0
  /\ NoTrip
  /\ InitRunState

SpecSpace == InitSpace /\ [][NextRepack]_vars

(***************************************************************************)
(* Properties                                                              *)
(***************************************************************************)
\* the command-line repack run
CliRepack == frontend = "cli" /\ tool = "repack"

\* the failures C1 lists all happen after repack registered its cleanup
FailedAfterRegistration(r) == exc[r] # NoExc /\ exc[r].type # "FileNotFoundError"

\* C1: in a CLI repack run, once a step has failed no further orchestrator
\* step is executed (the run's step history stays as long as it was when the
\* exception was raised), and when the process has exited the run's cleanup
\* has run and has issued losetup -d for every device the run attached.
C1_AbortThenRelease ==
  CliRepack =>
    \A r \in Runs :
      /\ exc[r] # NoExc => Len(steps[r]) = exc[r].nsteps
      /\ proc = "exited" /\ FailedAfterRegistration(r) =>
           /\ cleanupRuns[r] = 1
           /\ attachCount[DevOf(r)] > 0 => detachReq[DevOf(r)] >= 1

\* a run that failed in its var section, after the process has exited
C1_Witness ==
  /\ CliRepack /\ proc = "exited"
  /\ exc[1].type = "CalledProcessError" /\ role[1] = "var"
  /\ exc[1].nsteps = 6
  /\ attachCount[DevOf(1)] = 1 /\ detachReq[DevOf(1)] = 1

\* C2: when the process has ended and no umount and no losetup -d failed,
\* nothing is mounted and no loop device is attached, whether the run
\* completed or failed and whether the mounts were tracked or helper-local.
C2_NothingLeftBehind ==
  proc = "exited" /\ umountFails = 0 /\ detachFails = 0 =>
    mounted = {} /\ attached = {}

\* a repack run that failed inside replace_nested_image_in_partition, whose
\* mount is never in the tracked list
C2_Witness ==
  /\ proc = "exited" /\ umountFails = 0 /\ detachFails = 0
  /\ tool = "repack" /\ mounts[1] = << >>
  /\ placedBy[1]["root"] = "replace" /\ exc[1].type = "OSError"
  /\ << 3, "rw" >> \in mountLog
  /\ attachCount[DevOf(1)] = 1

RECURSIVE SumOver(_, _)
SumOver(f, S) ==
  IF S = {} THEN 0
  ELSE LET x == CHOOSE y \in S : TRUE IN f[x] + SumOver(f, S \ {x})

\* executions of a teardown in the lifetime of the process
TeardownCount == SumOver(cleanupRuns, Runs)

\* C3: when the process has exited, every device has exactly as many detach
\* requests as successful attaches, and teardown has executed at most once,
\* exactly once when a device was attached - also in a GUI process that
\* started several runs.
C3_DetachOncePerAttach ==
  proc = "exited" =>
    /\ \A d \in Devs : detachReq[d] = attachCount[d]
    /\ TeardownCount <= 1
    /\ (\E d \in Devs : attachCount[d] > 0) => TeardownCount = 1

\* C3, first half alone: no attached device is left without a detach request
C3_NoAttachWithoutDetach ==
  proc = "exited" => \A d \in Devs : attachCount[d] > 0 => detachReq[d] > 0

\* C3, second half alone: teardown never executes twice in one process
C3_TeardownAtMostOnce == TeardownCount <= 1

\* the positions of a run inside replace_nested_image_in_partition, after its mount
InReplace == {"replace.resolve", "replace.copy", "replace.copying", "replace.rename",
              "replace.finally"}

\* what the rule of C4 selects: the first preferred name that is a top-level
\* regular file, else the largest top-level regular file, the earliest in
\* directory order among the largest
ExpectedCandidate(dir, names) ==
  LET pref == {i \in 1..Len(names) : ExistsFile(dir, names[i])}
      files == {i \in 1..Len(dir) : is_file(dir[i])}
  IN  IF pref # {} THEN names[CHOOSE i \in pref : \A j \in pref : i <= j]
      ELSE IF files # {}
        THEN dir[CHOOSE i \in files :
                   \A j \in files : \/ dir[j].size < dir[i].size
                                    \/ dir[j].size = dir[i].size /\ i <= j].name
      ELSE NoName

\* C4: the candidate detect_existing_inner chooses on the content it scanned
\* is the first existing preferred regular file, else the first largest
\* top-level regular file; it is never a directory, and a returned path is
\* that candidate.
C4_CandidateRule ==
  \A r \in Runs : \A x \in Roles :
    scan[r][x].done =>
      /\ scan[r][x].cand = ExpectedCandidate(scan[r][x].dir, preferred[x])
      /\ scan[r][x].cand # NoName => ExistsFile(scan[r][x].dir, scan[r][x].cand)
      /\ pc[r] = "detect.finally" /\ role[r] = x /\ found[r].path # NoName =>
           found[r].path = scan[r][x].cand

\* two largest files of equal size and no preferred name: the first is chosen
C4_Witness ==
  LET sc == scan[1]["root"]
  IN  /\ sc.done /\ Len(sc.dir) = 2
      /\ is_file(sc.dir[1]) /\ is_file(sc.dir[2])
      /\ sc.dir[1].size = sc.dir[2].size
      /\ FirstPreferred(sc.dir, preferred["root"]) = NoName
      /\ sc.cand = sc.dir[1].name
      /\ found[1].path = sc.cand

\* the classification of C5, from the candidate's probed type
ClaimedShape(dir, names) ==
  LET c == ExpectedCandidate(dir, names)
  IN  IF c = NoName THEN "DirectFilesystem"
      ELSE IF is_squashfs(FileOutput(EntryAt(dir, c))) THEN "NestedSquashfs"
      ELSE IF is_ext_image(FileOutput(EntryAt(dir, c))) THEN "NestedExtImage"
      ELSE "DirectFilesystem"

\* how repack reads the pair returned by detect_existing_inner
ReturnedShape(f) ==
  IF f.path = NoName THEN "DirectFilesystem"
  ELSE IF f.sq THEN "NestedSquashfs"
  ELSE "NestedExtImage"

\* C5: the classification repack obtains is the one the probed type of the
\* candidate gives, and a partition classified DirectFilesystem is filled by
\* wipe_and_fill_partition_direct, never by replace_nested_image_in_partition.
C5_ClassificationByProbe ==
  \A r \in Runs : \A x \in Roles :
    scan[r][x].done =>
      /\ pc[r] = "detect.finally" /\ role[r] = x /\ exc[r] = NoExc =>
           ReturnedShape(found[r]) = ClaimedShape(scan[r][x].dir, preferred[x])
      /\ ClaimedShape(scan[r][x].dir, preferred[x]) = "DirectFilesystem" =>
           placedBy[r][x] # "replace"

\* C6: while replace_nested_image_in_partition works on the partition, the
\* entry at the target name is the entry that was there when the helper
\* mounted the partition or the complete copy of the artifact; a partially
\* written file exists only under the temporary name.
C6_TargetNeverPartial ==
  \A r \in Runs :
    pc[r] \in InReplace \ {"replace.resolve"} =>
      LET dir == part[PartOf(role[r])]
          t == target[r]
      IN  /\ HasEntry(dir, t) =>
                \/ HasEntry(before[r], t) /\ EntryAt(dir, t) = EntryAt(before[r], t)
                \/ EntryAt(dir, t) = CopiedFile(r, t)
          /\ \A i \in 1..Len(dir) : dir[i].gen = "partial" => dir[i].name # t

\* the copy failed part-way: the old image is still at the target name
C6_Witness ==
  /\ pc[1] = "replace.finally" /\ exc[1].type = "OSError"
  /\ HasEntry(part[3], target[1])
  /\ EntryAt(part[3], target[1]) = EntryAt(before[1], target[1])
  /\ EntryAt(part[3], target[1]).gen = "old"
  /\ \E i \in 1..Len(part[3]) : part[3][i].gen = "partial"

\* C7: after replace_nested_image_in_partition returned or failed, every
\* entry the partition had when the helper mounted it, other than the
\* resolved target, is still there unchanged.
C7_OtherFilesKept ==
  \A r \in Runs :
    pc[r] \in {"next", "raised"} /\ placedBy[r][role[r]] = "replace"
      /\ target[r] # NoName =>
      \A i \in 1..Len(before[r]) :
        before[r][i].name # target[r] =>
          \E j \in 1..Len(part[PartOf(role[r])]) :
            part[PartOf(role[r])][j] = before[r][i]

\* C9: when the partition content found by replace_nested_image_in_partition
\* is the content detect_existing_inner scanned and detect returned a file,
\* the target that gets overwritten is that file.
C9_TargetIsDetected ==
  \A r \in Runs :
    /\ pc[r] \in InReplace \ {"replace.resolve"}
    /\ scan[r][role[r]].done
    /\ before[r] = scan[r][role[r]].dir
    /\ found[r].path # NoName
    => target[r] = found[r].path

\* a replaced file that was found by the largest-file fallback
C9_Witness ==
  /\ pc[1] = "replace.finally" /\ exc[1] = NoExc
  /\ before[1] = scan[1]["root"].dir
  /\ FirstPreferred(before[1], preferred["root"]) = NoName
  /\ Len(before[1]) = 2
  /\ target[1] = found[1].path
  /\ EntryAt(part[3], target[1]) = CopiedFile(1, target[1])

\* C8: when the free space read by the helper is smaller than the artifact's
\* size minus the size of the file being overwritten, the helper fails with
\* the insufficient-space error and never starts copying the artifact.
C8_NoCopyWithoutSpace ==
  \A r \in Runs :
    spaceShort[r] =>
      /\ pc[r] \notin {"replace.copy", "replace.copying", "replace.rename"}
      /\ pc[r] = "replace.finally" => exc[r].type = "RuntimeError"

\* C10: in a repack run with include_var (include_home) false, partition 4
\* (5) is never scanned by detect_existing_inner, never mounted and never
\* written, and its content stays that of the source image, whether or not
\* the source tree has a var (home) subtree.
C10_SkippedPartitionUntouched ==
  CliRepack =>
    \A x \in {"var", "home"} :
      ~opts[1][x] =>
        /\ ~scan[1][x].done
        /\ placedBy[1][x] = "none"
        /\ \A m \in mountLog : m[1] # PartOf(x)
        /\ PartOf(x) \notin writeLog
        /\ part[PartOf(x)] = oldPart[PartOf(x)]

\* a completed run that replaced var and skipped home although the source
\* tree has a home subtree
C10_Witness ==
  /\ CliRepack /\ pc[1] = "returned"
  /\ opts[1].var /\ srcHas[1].var /\ ~opts[1].home /\ srcHas[1].home
  /\ 4 \in writeLog /\ part[4] # oldPart[4]
  /\ part[5] = oldPart[5]

\* the partitions of the superimage: 1 and 2 are the EFI/boot partitions
ImageParts == 1..5

BootParts == {1, 2}

\* C11: in every state of a repack or extract run, every partition that was
\* mounted or written is partition 3, 4 or 5 of the image; partitions 1 and
\* 2 are never mounted and never written.
C11_BootPartitionsUntouched ==
  /\ \A m \in mountLog : m[1] \in ImageParts \ BootParts
  /\ writeLog \cap BootParts = {}
  /\ writeLog \subseteq ImageParts

\* a completed run that mounted all of 3, 4 and 5
C11_Witness ==
  /\ pc[1] = "returned"
  /\ {m[1] : m \in mountLog} = {3, 4, 5}

IsPrefix(a, b) == Len(a) <= Len(b) /\ SubSeq(b, 1, Len(a)) = a

\* the steps of one partition: the build of the artifact belongs to the
\* replacement and runs between the resolve and the placement
SectionSteps(x) == << << "Resolve", x >>, << "Build", x >>, << "Replace", x >> >>

ExpectedSteps(r) ==
  << << "Attach", "-" >> >>
    \o SectionSteps("root")
    \o (IF Wanted(r, "var") THEN SectionSteps("var") ELSE << >>)
    \o (IF Wanted(r, "home") THEN SectionSteps("home") ELSE << >>)
    \o << << "Sync", "-" >> >>

\* C12: the steps a CLI repack run has executed are always an initial part
\* of Attach, ResolveRoot, ReplaceRoot, (ResolveVar, ReplaceVar if enabled
\* and present), (ResolveHome, ReplaceHome if enabled and present), Sync; a
\* run that returned executed all of them; and Release (the cleanup) runs
\* only when the run has ended, so it is the last step.
C12_StepOrder ==
  CliRepack =>
    /\ IsPrefix(steps[1], ExpectedSteps(1))
    /\ pc[1] = "returned" => steps[1] = ExpectedSteps(1)
    /\ cleanupRuns[1] > 0 => pc[1] = "ended"

\* a run with both optional sections, after its Release
C12_Witness ==
  /\ CliRepack /\ proc = "exited" /\ exitCode = 0
  /\ cleanupRuns[1] = 1
  /\ Wanted(1, "var") /\ Wanted(1, "home")
  /\ Len(steps[1]) = 11
  /\ steps[1] = ExpectedSteps(1)

(***************************************************************************)
(* SpecTrip: the file trees of a round trip.  The extractor                *)
(* (extract_all, img2dsk_fedora.py lines 127-187) fills one output         *)
(* directory from the nested root, var and home images; repack() (lines    *)
(* 280-343) then builds the new images from that directory.  A tree is a   *)
(* set of entries: a path below the top of the tree and the image the      *)
(* entry's content comes from.  No command fails here.                     *)
(***************************************************************************)
E(path, from) == [path |-> path, from |-> from]

PathsOf(tree) == {e.path : e \in tree}

\* rsync -aAXH src/ dst/ and unsquashfs -f -d dst: an entry replaces the entry of its path
Overlay(dst, src) == {e \in dst : e.path \notin PathsOf(src)} \cup src

\* the entries of tree, moved below the directory sub
Under(sub, tree) == {E(<< sub >> \o e.path, e.from) : e \in tree}

\* the tree below the top-level directory sub (root_tree / "var", root_tree / "home")
Subtree(tree, sub) ==
  {E(Tail(e.path), e.from) : e \in {t \in tree : Len(t.path) > 1 /\ Head(t.path) = sub}}

\* ensure_dir(subdir)
EnsureDir(tree, sub) ==
  IF << sub >> \in PathsOf(tree) THEN tree ELSE tree \cup {E(<< sub >>, "mkdir")}

\* the tree of an image built from src: mkfs.ext4 makes lost+found, rsync copies src in
BuiltTree(fmt, src) ==
  IF fmt = "ext4" THEN Overlay({E(<< "lost+found" >>, "mkfs")}, src) ELSE src

TripFormats == {"squashfs", "ext4"}

\* what a nested root image may hold besides /etc
RootExtras ==
  { {}, {<< "var" >>}, {<< "var" >>, << "var", "lib" >>}, {<< "home" >>},
    {<< "var" >>, << "home" >>}, {<< "var" >>, << "var", "lib" >>, << "home" >>} }

VarExtras == SUBSET {<< "log" >>, << "lib" >>}

HomeExtras == SUBSET {<< "deck" >>}

\* the tree of an original nested image: an ext4 image has lost+found
OrigTree(x, fmt, base, extras) ==
  {E(q, x) : q \in base \cup extras
                    \cup (IF fmt = "ext4" THEN {<< "lost+found" >>} ELSE {})}

\* the format of the nested root image; it is the format repack() rebuilds
RootFormat == IF << "lost+found" >> \in PathsOf(origTree["root"]) THEN "ext4" ELSE "squashfs"

TripGoto(at) == tripPc' = at

\* extract_all, lines 141-169: the nested root image into outdir
TripExtractRoot ==
  /\ tripPc = "extract.root"
  /\ outTree' = Overlay(outTree, origTree["root"])
  /\ TripGoto("extract.var")
  /\ UNCHANGED << cfgVars, loopVars, callVars, procVars, runVars, diskVars, histVars, origTree, rebuilt >>

\* _extract_into_subdir(dev, outdir, sub), lines 105-125
TripExtractSub(x) ==
  /\ tripPc = "extract." \o x
  /\ outTree' = Overlay(EnsureDir(outTree, x), Under(x, origTree[x]))
  /\ TripGoto(IF x = "var" THEN "extract.home" ELSE "repack.root")
  /\ UNCHANGED << cfgVars, loopVars, callVars, procVars, runVars, diskVars, histVars, origTree, rebuilt >>

\* repack(), lines 280-307: the root image from the whole tree
TripRepackRoot ==
  /\ tripPc = "repack.root"
  /\ rebuilt' = [rebuilt EXCEPT !["root"] = BuiltTree(RootFormat, outTree)]
  /\ TripGoto("repack.var")
  /\ UNCHANGED << cfgVars, loopVars, callVars, procVars, runVars, diskVars, histVars, origTree, outTree >>

\* repack(), lines 309-343: the var and home images from root_tree/var, root_tree/home
TripRepackSub(x) ==
  /\ tripPc = "repack." \o x
  /\ IF << x >> \in PathsOf(outTree)
       THEN rebuilt' = [rebuilt EXCEPT ![x] = BuiltTree("ext4", Subtree(outTree, x))]
       ELSE UNCHANGED rebuilt
  /\ TripGoto(IF x = "var" THEN "repack.home" ELSE "done")
  /\ UNCHANGED << cfgVars, loopVars, callVars, procVars, runVars, diskVars, histVars, origTree, outTree >>

NextTrip ==
  \/ TripExtractRoot
  \/ \E x \in {"var", "home"} : TripExtractSub(x)
  \/ TripRepackRoot
  \/ \E x \in {"var", "home"} : TripRepackSub(x)

InitTrip ==
  /\ frontend = "cli"
  /\ tool = "extract"
  /\ isRootUser = TRUE
  /\ inputsExist = TRUE
  /\ opts = [r \in Runs |-> [var |-> TRUE, home |-> TRUE]]
  /\ srcHas = [r \in Runs |-> [var |-> TRUE, home |-> TRUE]]
  /\ preferred = [x \in Roles |-> CodePreferred(x)]
  /\ started = 0
  /\ pc = [r \in Runs |-> "idle"]
  /\ part = [p \in Parts |-> << >>]
  /\ oldPart = part
  /\ artSize = 1
  /\ freeSpace = MaxFree
  /\ faulty = {}
  /\ dataBytes = 0
  /\ InitRunState
  /\ \E fmt \in TripFormats, re \in RootExtras, ve \in VarExtras, he \in HomeExtras :
       origTree = [x \in Roles |->
                     CASE x = "root" -> OrigTree(x, fmt, {<< "etc" >>}, re)
                       [] x = "var"  -> OrigTree(x, "ext4", {}, ve)
                       [] x = "home" -> OrigTree(x, "ext4", {}, he)]
  /\ outTree = {}
  /\ rebuilt = [x \in Roles |-> {}]
  /\ tripPc = "extract.root"

SpecTrip == InitTrip /\ [][NextTrip]_vars

\* C17: after extracting root, var and home and repacking the unmodified
\* output directory, each rebuilt nested image has the file tree of the
\* corresponding nested image of the original.
C17_RoundTrip ==
  tripPc = "done" => \A x \in Roles : rebuilt[x] = origTree[x]

(***************************************************************************)
(* SpecDetect: detect_existing_inner called MaxCalls times in a row on     *)
(* partition 3 of an attached image, with the same preferred-name list,    *)
(* for every content of PartLayouts; mount and umount may fail.            *)
(***************************************************************************)
MaxCalls == 2

\* the caller calls the helper again
DetectAgain(r) ==
  /\ proc # "exited" /\ pc[r] = "build"
  /\ Len(detectLog[r]) < MaxCalls
  /\ Goto(r, "detect.mount")
  /\ UNCHANGED << cfgVars, loopVars, tripVars, callVars, procVars, role, exc, loops, mounts, found, art,
                  target, hfree, diskVars, histVars >>

NextDetect ==
  \E r \in Runs : DetectMount(r) \/ DetectScan(r) \/ DetectFinally(r) \/ DetectAgain(r)

InitDetect ==
  /\ frontend = "cli"
  /\ tool = "repack"
  /\ isRootUser = TRUE
  /\ inputsExist = TRUE
  /\ opts = [r \in Runs |-> NoOpts]
  /\ srcHas = [r \in Runs |-> NoOpts]
  /\ \E names \in PrefLists :
       preferred = [x \in Roles |-> IF x = "root" THEN names ELSE CodePreferred(x)]
  /\ started = 1
  /\ pc = [r \in Runs |-> IF r = 1 THEN "detect.mount" ELSE "idle"]
  /\ \E l3 \in PartLayouts :
       part = [p \in Parts |-> IF p = 3 THEN l3 ELSE << LostFound >>]
  /\ oldPart = part
  /\ artSize = 1
  /\ freeSpace = MaxFree
  /\ faulty = {"mount", "umount"}
  /\ dataBytes = 0
  /\ NoTrip
  /\ proc = "running"
  /\ exitCode = -1
  /\ atexitPending = << 1 >>
  /\ role = [r \in Runs |-> "root"]
  /\ exc = [r \in Runs |-> NoExc]
  /\ loops = [r \in Runs |-> IF r = 1 THEN << DevOf(1) >> ELSE << >>]
  /\ mounts = [r \in Runs |-> << >>]
  /\ found = [r \in Runs |-> NoneFound]
  /\ art = [r \in Runs |-> NoArt]
  /\ target = [r \in Runs |-> NoName]
  /\ hfree = [r \in Runs |-> 0]
  /\ attached = {DevOf(1)}
  /\ mounted = {}
  /\ outImg = "copy"
  /\ steps = [r \in Runs |-> IF r = 1 THEN << << "Attach", "-" >> >> ELSE << >>]
  /\ scan = [r \in Runs |-> [x \in Roles |-> NoScan]]
  /\ before = [r \in Runs |-> << >>]
  /\ placedBy = [r \in Runs |-> [x \in Roles |-> "none"]]
  /\ mountLog = {}
  /\ writeLog = {}
  /\ attachCount = [d \in Devs |-> IF d = DevOf(1) THEN 1 ELSE 0]
  /\ backing = [d \in Devs |-> IF d = DevOf(1) THEN AttachedImage ELSE "none"]
  /\ detachReq = [d \in Devs |-> 0]
  /\ cleanupRuns = [r \in Runs |-> 0]
  /\ umountFails = 0
  /\ detachFails = 0
  /\ spaceShort = [r \in Runs |-> FALSE]
  /\ cmdLog = << >>
  /\ rmMounted = {}
  /\ detectLog = [r \in Runs |-> << >>]

SpecDetect == InitDetect /\ [][NextDetect]_vars

\* the helper of run r is not running: it has returned or raised
DetectIdle(r) == pc[r] \in {"build", "raised"}

\* C25: two calls of detect_existing_inner in a row on the same partition
\* with the same name list return the same file and the same shape, and the
\* content of the partition after a call is the content the call scanned.
C25_DetectRepeatable ==
  \A r \in Runs :
    LET log == detectLog[r]
    IN  /\ \A i \in 1..(Len(log) - 1) :
              log[i].part = log[i + 1].part /\ log[i].names = log[i + 1].names
                => log[i + 1].res = log[i].res
        /\ DetectIdle(r) /\ log # << >> =>
              part[log[Len(log)].part] = log[Len(log)].dir

\* the same with no umount having failed
C25_RepeatableWhenUnmounted ==
  umountFails = 0 => C25_DetectRepeatable

(***************************************************************************)
(* SpecRelease: a command-line extraction whose caller invokes the cleanup *)
(* of the extractor again after atexit has run it (cleanup is a public     *)
(* method that keeps its lists; lines 89-103).                             *)
(***************************************************************************)
MaxCleanups == 2

CleanupAgain(r) ==
  /\ proc = "atexit"
  /\ atexitPending = << >>
  /\ cleanupRuns[r] \in 1..(MaxCleanups - 1)
  /\ Cleanup(r)
  /\ UNCHANGED << cfgVars, loopVars, tripVars, callVars, proc, exitCode, atexitPending, started, runVars,
                  part, outImg, steps, scan, before, placedBy, mountLog, writeLog,
                  attachCount, spaceShort >>

NextRelease ==
  \/ \E r \in Runs : Main(r)
  \/ \E r \in Runs : Attach(r)
  \/ \E r \in Runs : ExtractStep(r)
  \/ \E r \in Runs : CliExit(r)
  \/ AtexitCleanup
  \/ \E r \in Runs : CleanupAgain(r)
  \/ ProcExit

InitRelease == Init /\ tool = "extract" /\ isRootUser /\ inputsExist

SpecRelease == InitRelease /\ [][NextRelease]_vars

\* a cleanup that has already completed once is invoked again
SecondInvocation ==
  \E r \in Runs : cleanupRuns[r] >= 1 /\ cleanupRuns'[r] = cleanupRuns[r] + 1

\* C27: invoking a cleanup again after it has completed issues no umount and
\* no detach and leaves the mounts and the attached devices as they were.
C27_SecondCleanupNoOp ==
  [][SecondInvocation =>
       /\ cmdLog' = cmdLog
       /\ detachReq' = detachReq
       /\ mounted' = mounted
       /\ attached' = attached]_vars

\* its second half alone: the state the first invocation left is kept
C27_SecondCleanupKeepsState ==
  [][SecondInvocation => mounted' = mounted /\ attached' = attached]_vars

(***************************************************************************)
(* SpecAgree: a command-line extraction of an image whose var partition,   *)
(* or whose home partition, ranges over every directory of at most         *)
(* MaxEntries entries; no command fails.  The statement compares what      *)
(* _extract_into_subdir reads with what repack resolves on that content.   *)
(***************************************************************************)
SubNames(x) ==
  IF x = "var" THEN {N("var-A.img"), N("var.img"), N("data.bin")}
  ELSE {N("home.img"), N("data.bin")}

SubEntries(x) ==
  {Dir(n, "old") : n \in SubNames(x)}
    \cup {File(n, sz, out, "old") : n \in SubNames(x), sz \in 1..MaxSize, out \in ProbeOutputs}

SubLayouts(x) ==
  UNION {{q \in [1..k -> SubEntries(x)] : \A i, j \in 1..k : i # j => q[i].name # q[j].name}
           : k \in 0..MaxEntries}

NextAgree ==
  \/ \E r \in Runs : Main(r)
  \/ \E r \in Runs : Attach(r)
  \/ \E r \in Runs : ExtractStep(r)
  \/ \E r \in Runs : CliExit(r)
  \/ AtexitCleanup
  \/ ProcExit

InitAgree ==
  /\ frontend = "cli"
  /\ tool = "extract"
  /\ isRootUser = TRUE
  /\ inputsExist = TRUE
  /\ opts = [r \in Runs |-> IF r = 1 THEN [var |-> TRUE, home |-> TRUE] ELSE NoOpts]
  /\ srcHas = [r \in Runs |-> NoOpts]
  /\ preferred = [x \in Roles |-> CodePreferred(x)]
  /\ started = 1
  /\ pc = [r \in Runs |-> IF r = 1 THEN "main" ELSE "idle"]
  /\ \/ \E l4 \in SubLayouts("var") :
          part = [p \in Parts |->
                    CASE p = 3 -> << File(N("rootfs.squashfs"), 2, {"squashfs"}, "old") >>
                      [] p = 4 -> l4
                      [] p = 5 -> << File(N("home.img"), 1, {"ext4"}, "old") >>]
     \/ \E l5 \in SubLayouts("home") :
          part = [p \in Parts |->
                    CASE p = 3 -> << File(N("rootfs.squashfs"), 2, {"squashfs"}, "old") >>
                      [] p = 4 -> << File(N("var-A.img"), 1, {"ext4"}, "old") >>
                      [] p = 5 -> l5]
  /\ oldPart = part
  /\ artSize = 1
  /\ freeSpace = MaxFree
  /\ faulty = {}
  /\ dataBytes = 0
  /\ NoTrip
  /\ InitRunState

SpecAgree == InitAgree /\ [][NextAgree]_vars

\* run r of the extractor has just chosen how to read the var or home partition
SubScanned(r) ==
  /\ tool = "extract" /\ role[r] \in {"var", "home"}
  /\ pc[r] \in {"inner.mount", "rsync"}
  /\ ~(Mp(r, "inner") \in mounted)

\* C28: on every content of a var or home partition the extractor reads from
\* the file that repack's detect_existing_inner resolves and that
\* replace_nested_image_in_partition overwrites, and it reads the partition
\* as a direct filesystem exactly when detect_existing_inner finds no file.
C28_LayoutAgreement ==
  \A r \in Runs :
    SubScanned(r) =>
      LET dir == part[PartOf(role[r])]
          d == detect_existing_inner(dir, preferred[role[r]])
      IN  /\ found[r].path = d.path
          /\ d.path # NoName => ReplaceTarget(dir, preferred[role[r]]) = found[r].path

\* the same on the contents without a file of a preferred name whose only
\* recognised files are ext images
C28_AgreementOnPlainLayouts ==
  \A r \in Runs :
    SubScanned(r) =>
      LET dir == part[PartOf(role[r])]
          d == detect_existing_inner(dir, preferred[role[r]])
      IN  FirstPreferred(dir, preferred[role[r]]) = NoName
            /\ (\A i \in 1..Len(dir) : ~is_squashfs(FileOutput(dir[i])))
          => found[r].path = d.path

(***************************************************************************)
(* SpecSub: a command-line repack that replaces root and var, the var      *)
(* partition ranging over every directory of at most MaxEntries entries;   *)
(* no command fails.                                                       *)
(***************************************************************************)
InitSub ==
  /\ frontend = "cli"
  /\ tool = "repack"
  /\ isRootUser = TRUE
  /\ inputsExist = TRUE
  /\ opts = [r \in Runs |-> IF r = 1 THEN [var |-> TRUE, home |-> FALSE] ELSE NoOpts]
  /\ srcHas = [r \in Runs |-> IF r = 1 THEN [var |-> TRUE, home |-> FALSE] ELSE NoOpts]
  /\ preferred = [x \in Roles |-> CodePreferred(x)]
  /\ started = 1
  /\ pc = [r \in Runs |-> IF r = 1 THEN "main" ELSE "idle"]
  /\ \E l3 \in GuiRootLayouts, l4 \in SubLayouts("var") :
       part = [p \in Parts |-> CASE p = 3 -> l3 [] p = 4 -> l4 [] p = 5 -> << LostFound >>]
  /\ oldPart = part
  /\ artSize = 1
  /\ freeSpace = MaxFree
  /\ faulty = {}
  /\ dataBytes = 0
  /\ NoTrip
  /\ InitRunState

SpecSub == InitSub /\ [][NextRepack]_vars

\* file -b recognises the content as an image
Recognised(e) == is_squashfs(FileOutput(e)) \/ is_ext_image(FileOutput(e))

\* the format of an image that has the format of e
FormatLike(e) == IF is_squashfs(FileOutput(e)) THEN "squashfs" ELSE "ext4"

\* C29: when the nested file that repack found on a partition is a
\* recognised image, the artifact built to be installed over it has its
\* format: squashfs for a squashfs image, ext4 for an ext2/3/4 image.
C29_FormatKept ==
  \A r \in Runs :
    LET x == role[r]
    IN  /\ art[r] # NoArt /\ art[r].state = "final"
        /\ scan[r][x].done /\ found[r].path # NoName
        /\ Recognised(EntryAt(scan[r][x].dir, found[r].path))
        => art[r].fmt = FormatLike(EntryAt(scan[r][x].dir, found[r].path))

\* the same for existing ext images only
C29_ExtKeptAsExt4 ==
  \A r \in Runs :
    LET x == role[r]
    IN  /\ art[r] # NoArt /\ art[r].state = "final"
        /\ scan[r][x].done /\ found[r].path # NoName
        /\ is_ext_image(FileOutput(EntryAt(scan[r][x].dir, found[r].path)))
        => art[r].fmt = "ext4"

(***************************************************************************)
(* SpecSize: the sizing of build_ext4_image (lines 103-113), in bytes, for *)
(* source sizes around the points where the size reaches the next multiple *)
(* of 64 MiB.                                                              *)
(***************************************************************************)
MiB == 1048576

MaxBlocks == 8

MaxOffset == 6

Max(a, b) == IF a >= b THEN a ELSE b

\* variant: rounding down
round_down(n, block) == (n \div block) * block

round_up(n, block) == ((n + block - 1) \div block) * block

\* size = data + data // 6 + (64 << 20); max(size, 256 << 20); round_up(size, 64 << 20)
Ext4ImageSize(data) ==
  round_up(Max(data + data \div 6 + 64 * MiB, 256 * MiB), 64 * MiB)

\* source sizes m * (6/7 * 64 MiB) + j: there data + data // 6 is next to m * 64 MiB
DataSizes ==
  {d \in {m * ((6 * 64 * MiB) \div 7) + j : m \in 0..MaxBlocks, j \in (0 - MaxOffset)..MaxOffset} :
     d >= 0}

\* lines 103-113: compute the size, create the temporary file of that size
AllocateImage(r) ==
  /\ proc # "exited" /\ pc[r] = "size"
  /\ art' = [art EXCEPT ![r] = [name |-> DefaultRootName, fmt |-> "ext4",
                                 size |-> Ext4ImageSize(dataBytes),
                                 state |-> "tmp", content |-> "empty"]]
  /\ Goto(r, "sized")
  /\ UNCHANGED << cfgVars, loopVars, tripVars, callVars, procVars, role, exc, loops, mounts, found, target, hfree,
                  diskVars, histVars >>

NextSize == \E r \in Runs : AllocateImage(r)

InitSize ==
  /\ frontend = "cli"
  /\ tool = "repack"
  /\ isRootUser = TRUE
  /\ inputsExist = TRUE
  /\ opts = [r \in Runs |-> NoOpts]
  /\ srcHas = [r \in Runs |-> NoOpts]
  /\ preferred = [x \in Roles |-> CodePreferred(x)]
  /\ started = 1
  /\ pc = [r \in Runs |-> IF r = 1 THEN "size" ELSE "idle"]
  /\ part = [p \in Parts |-> << LostFound >>]
  /\ oldPart = part
  /\ artSize = 1
  /\ freeSpace = MaxFree
  /\ faulty = {}
  /\ dataBytes \in DataSizes
  /\ NoTrip
  /\ InitRunState

SpecSize == InitSize /\ [][NextSize]_vars

BuildFailed(r) ==
  /\ exc[r] # NoExc
  /\ exc[r].nsteps \in 1..Len(steps[r])
  /\ steps[r][exc[r].nsteps][1] = "Build"

\* C15: when mkfs.ext4, the loop mount or rsync fails inside build_ext4_image,
\* or mksquashfs fails inside build_squashfs, the artifact is never at its
\* final path afterwards: what is left of it has the .tmp name.  And an
\* artifact at its final path went through every build step.
C15_NoFinalAfterFailedBuild ==
  \A r \in Runs :
    /\ BuildFailed(r) => art[r] # NoArt /\ art[r].state = "tmp"
    /\ art[r] # NoArt /\ art[r].state = "final" => art[r].content # "partial"

\* rsync failed half way into the mounted ext4 image, the finally block ran
C15_Witness ==
  /\ BuildFailed(1)
  /\ pc[1] = "raised"
  /\ exc[1].rc = ExitStatusOf("rsync")
  /\ art[1].fmt = "ext4" /\ art[1].content = "partial" /\ art[1].state = "tmp"

\* C16: after wipe_and_fill_partition_direct returned without an exception,
\* the top level of the partition holds exactly the entries of the source
\* tree plus the lost+found directory that was there before: lost+found is
\* kept, every other old entry that the source tree does not have is gone.
C16_WipeResult ==
  \A r \in Runs :
    pc[r] = "next" /\ placedBy[r][role[r]] = "wipe" /\ exc[r] = NoExc =>
      LET now == part[PartOf(role[r])]
          src == SrcTop(role[r], srcHas[r])
      IN  /\ NamesOf(now) = NamesOf(src) \cup (NamesOf(before[r]) \cap {N("lost+found")})
          /\ \A i \in 1..Len(src) : \E j \in 1..Len(now) : now[j] = src[i]
          /\ HasEntry(before[r], N("lost+found")) =>
                \E j \in 1..Len(now) : now[j] = LostFound

\* C18: when include_var (include_home) is set but the source tree has no
\* var (home) subtree, a CLI repack run never enters that section: the
\* partition is not scanned, not mounted, not written and keeps its content,
\* no step and no exception belongs to the section, and the run goes on.
C18_MissingSubtreeSkipped ==
  CliRepack =>
    \A x \in {"var", "home"} :
      opts[1][x] /\ ~srcHas[1][x] =>
        /\ role[1] # x
        /\ \A i \in 1..Len(steps[1]) : steps[1][i][2] # x
        /\ ~scan[1][x].done
        /\ placedBy[1][x] = "none"
        /\ \A m \in mountLog : m[1] # PartOf(x)
        /\ PartOf(x) \notin writeLog
        /\ part[PartOf(x)] = oldPart[PartOf(x)]

\* a run that completed with status 0: var asked for but absent from the
\* source tree, home replaced after it
C18_Witness ==
  /\ CliRepack /\ proc = "exited" /\ exitCode = 0 /\ exc[1] = NoExc
  /\ opts[1].var /\ ~srcHas[1].var
  /\ opts[1].home /\ srcHas[1].home
  /\ steps[1][Len(steps[1])] = << "Sync", "-" >>
  /\ placedBy[1]["home"] # "none" /\ 5 \in writeLog
  /\ part[4] = oldPart[4]

\* the class of the failure that ended a command-line process
FailureClass ==
  IF ~isRootUser THEN "privilege"
  ELSE IF ~inputsExist THEN "input"
  ELSE IF \E r \in Runs : exc[r].type = "CalledProcessError" THEN "tool"
  ELSE "none"

\* C19: the exit status of a command-line process tells the three failure
\* classes apart.  A process that is not run as root always ends with
\* ExitNotRoot, so a missing input must not end with that status, and a
\* failed external tool must end neither with it nor with the status the
\* extractor gives to a missing image.
C19_DistinctExitStatus ==
  frontend = "cli" /\ proc = "exited" =>
    /\ FailureClass = "privilege" => exitCode = ExitNotRoot
    /\ FailureClass = "input" => exitCode # ExitNotRoot
    /\ FailureClass = "tool" =>
          /\ exitCode # ExitNotRoot
          /\ tool = "extract" => exitCode # ExitImageNotFound

\* a teardown command issued by the cleanup of run r
OfRun(c, r) ==
  CASE c[1] = "umount"     -> c[2].run = r
    [] c[1] = "losetup -d" -> c[2] = DevOf(r)
    [] c[1] = "rmtree"     -> c[2] = r

\* C20: the cleanup of a run issues an umount for every tracked mount point,
\* last registered first (so the mount of a nested image before the mount of
\* the partition that holds it), then a losetup -d for every tracked loop
\* device, last registered first, then removes the working directory; all of
\* them are issued whether or not an umount or a detach among them failed.
C20_TeardownOrder ==
  \A r \in Runs :
    cleanupRuns[r] = 1 =>
      LET log == SelectSeq(cmdLog, LAMBDA c : OfRun(c, r))
          nm == Len(mounts[r])
          nl == Len(loops[r])
      IN  /\ Len(log) = nm + nl + 1
          /\ \A i \in 1..nm : log[i] = << "umount", mounts[r][nm + 1 - i] >>
          /\ \A i \in 1..nl : log[nm + i] = << "losetup -d", loops[r][nl + 1 - i] >>
          /\ log[nm + nl + 1] = << "rmtree", r >>
          /\ \A i, j \in 1..nm :
                /\ log[i][2].helper = "part" /\ log[j][2].helper = "inner"
                /\ log[i][2].role = log[j][2].role
                => j < i

\* an extraction whose cleanup had an umount fail: the mount point is still
\* mounted, and the detach and the removal of the working directory were issued
C20_Witness ==
  /\ tool = "extract" /\ proc = "exited" /\ cleanupRuns[1] = 1
  /\ Len(mounts[1]) >= 4 /\ Len(loops[1]) = 1
  /\ \E m \in Range(mounts[1]) : m \in mounted
  /\ Len(cmdLog) = Len(mounts[1]) + 2
  /\ cmdLog[Len(cmdLog)] = << "rmtree", 1 >>
  /\ cmdLog[Len(cmdLog) - 1] = << "losetup -d", DevOf(1) >>

\* C21: the directory of a mount point is removed only after the mount point
\* has been unmounted: no rmtree, in a helper's finally block or in the
\* cleanup, ever ran on a directory that still had a partition or an image
\* mounted on it.
C21_RemoveOnlyUnmounted == rmMounted = {}

\* C22: the release of a run's mounts and loop device is part of the run: when
\* a run has ended, by return or by an exception, and the process is still
\* running (nobody has quit it), the run's cleanup has run and no device the
\* run attached is still attached.
C22_ReleasedWhenRunEnds ==
  \A r \in Runs :
    pc[r] = "ended" /\ proc = "running" /\ loops[r] # << >> =>
      /\ cleanupRuns[r] >= 1
      /\ \A i \in 1..Len(loops[r]) : loops[r][i] \notin attached

\* the worker of run r is inside a step: its copy into the partition is in flight
InStep(r) == pc[r] = "replace.copying"

\* the process stops for good, no thread of it takes another step
ProcessEnds == proc # "exited" /\ proc' = "exited"

\* a cleanup executes its umounts, detaches and rmtree
FinalizerRuns == cleanupRuns' # cleanupRuns

\* C23: in the GUI a quit takes effect only between the steps of a worker:
\* neither does the process end while a worker is inside a step, nor does a
\* cleanup execute while a worker is inside a step.
C23_QuitBetweenSteps ==
  [][frontend = "gui" /\ (ProcessEnds \/ FinalizerRuns) => \A r \in Runs : ~InStep(r)]_vars

\* its two halves
C23_NoStepCutOff ==
  [][frontend = "gui" /\ ProcessEnds => \A r \in Runs : ~InStep(r)]_vars

C23_NoFinalizerDuringStep ==
  [][frontend = "gui" /\ FinalizerRuns => \A r \in Runs : ~InStep(r)]_vars

\* the worker of run r has started and has not ended
Active(r) == pc[r] \notin {"idle", "ended"}

\* C24: at most one run is active at any time in a process, so at most one
\* attached image exists at a time.
C24_OneRunAtATime ==
  /\ \A r1, r2 \in Runs : Active(r1) /\ Active(r2) => r1 = r2
  /\ Cardinality(attached) <= 1

\* its first half alone: two workers active together
C24_NoConcurrentRuns ==
  \A r1, r2 \in Runs : Active(r1) /\ Active(r2) => r1 = r2

\* C26: detect_existing_inner mounts the partition read-only: while a
\* command-line repack run classifies a partition, that partition has not
\* been mounted read-write.
C26_DetectReadOnly ==
  CliRepack =>
    \A r \in Runs :
      pc[r] = "detect.scan" => << PartOf(role[r]), "rw" >> \notin mountLog

\* the image behind each loop device is one the tools name
TypeBacking == backing \in [Devs -> {"none", "out", "old", "image"}]

\* the content of the original image (--old): the partitions behind a loop
\* device are those of the image the device was attached to, so the writes
\* recorded in part land in the original only if a device was backed by it
OriginalContent == IF \E d \in Devs : backing[d] = "old" THEN part ELSE oldPart

\* C30: repack never attaches, mounts or writes the original image: every
\* loop device it attaches is backed by the output copy, the original's
\* partitions hold the same content in every state of the run - on success
\* and after every failure - and as long as the output is not a complete
\* copy (the copy has not run, or it failed) nothing is attached, mounted
\* or written.
C30_OriginalUntouched ==
  tool = "repack" =>
    /\ \A d \in Devs : backing[d] \in {"none", "out"}
    /\ \A d \in Devs : attachCount[d] > 0 => backing[d] = "out"
    /\ OriginalContent = oldPart
    /\ outImg # "copy" =>
         /\ attached = {} /\ mounted = {}
         /\ \A d \in Devs : attachCount[d] = 0
         /\ mountLog = {} /\ writeLog = {}

\* a finished run that attached the output copy and changed a partition of it
C30_Witness ==
  /\ tool = "repack" /\ proc = "exited"
  /\ backing[DevOf(1)] = "out" /\ attachCount[DevOf(1)] = 1
  /\ writeLog # {} /\ part # oldPart

\* a run whose copy to the output path failed
C30_CopyFailed ==
  /\ tool = "repack" /\ proc = "exited" /\ outImg = "partial"
  /\ exc[1].type = "OSError" /\ loops[1] = << >>

\* C13, the builder: the root artifact is a squashfs exactly when the
\* resolved shape is NestedSquashfs, an ext4 image otherwise
C13_BuilderByShape ==
  \A r \in Runs :
    role[r] = "root" /\ art[r] # NoArt =>
      (art[r].fmt = "squashfs" <=> ReturnedShape(found[r]) = "NestedSquashfs")

\* C13, the name: the root artifact carries the name of the file the
\* classification returned, the default name when it returned none
C13_NameKept ==
  \A r \in Runs :
    role[r] = "root" /\ art[r] # NoArt =>
      art[r].name = IF found[r].path # NoName THEN found[r].path ELSE DefaultRootName

\* C13: for the root partition the artifact is built by build_squashfs when
\* the resolved shape is NestedSquashfs and by build_ext4_image in every
\* other case, under the existing nested file's name when the classification
\* returned a file and under the default name otherwise.
C13_RootArtifact == C13_BuilderByShape /\ C13_NameKept

====
